---- MODULE Spec2Model ----
(***************************************************************************)
(* DevPlane: the Workspace reconciler (controllers package) and the        *)
(* gateway's lifecycle manager, over one Workspace resource of one user    *)
(* and the objects derived from it, as stored on the platform; and the     *)
(* gateway's HTTP side: token validator, handlers and WebSocket relay.     *)
(***************************************************************************)
EXTENDS Integers, Sequences, FiniteSets, TLC

\* ------------------------------------------------------------------ bounds
\* The platform clock runs from 1 to MaxTime (0 is the zero time.Time).
MaxTime == 3
\* The operator's IDLE_TIMEOUT when idle eviction is switched on, in clock ticks.
IdleCfg == 1

\* ------------------------------------------------------------------ values
WorkspacePhasePending  == "Pending"
WorkspacePhaseCreating == "Creating"
WorkspacePhaseRunning  == "Running"
WorkspacePhaseFailed   == "Failed"
WorkspacePhaseStopped  == "Stopped"

\* Values of WORKSPACE_IMAGE the operator is started with.
Images == {"workspace:1", "workspace:2"}

PodName         == "u-workspace-pod"
ServiceEndpoint == "u-workspace-svc.ns.svc.cluster.local"

MsgIdle    == "Workspace stopped due to inactivity"
MsgInvalid == "spec invalid"
MsgPVCLost == "PVC lost - manual intervention required"

\* Kinds of owned objects that are ensured by CreateOrUpdate.
RBACKinds   == {"ServiceAccount", "Role", "RoleBinding"}
PolicyKinds == {"deny-all", "egress", "ingress-gateway"}

FatalWaiting == {"CrashLoopBackOff", "ImagePullBackOff", "ErrImagePull", "InvalidImageName"}

\* The waiting reasons kubelet reports for a container of a pod in a phase.
WaitingReasons(podPhase) ==
    IF podPhase = "Pending" THEN {"ContainerCreating", "ImagePullBackOff", "ErrImagePull", "InvalidImageName"}
    ELSE IF podPhase = "Running" THEN {"CrashLoopBackOff"}
    ELSE {}

\* No Workspace stored under the user's name.
NoWorkspace ==
    [exists |-> FALSE, finalizer |-> FALSE, deleting |-> FALSE, valid |-> TRUE,
     phase |-> "", podName |-> "", serviceEndpoint |-> "", message |-> "",
     lastAccessed |-> 0]

\* A Workspace as the gateway or a user creates it: empty status, no finalizer.
NewWorkspace(valid) == [NoWorkspace EXCEPT !.exists = TRUE, !.valid = valid]

NoPod ==
    [exists |-> FALSE, image |-> "", phase |-> "", ready |-> FALSE,
     terminating |-> FALSE, waiting |-> ""]

VARIABLES
    ws,           \* the stored Workspace resource
    owned,        \* kinds of RBAC objects, network policies and the service that exist
    pvc,          \* the persistent claim: "none", "Pending", "Bound" or "Lost"
    pod,          \* the workspace pod
    now,          \* the platform clock
    image,        \* WorkspaceReconciler.WorkspaceImage
    idleTimeout,  \* WorkspaceReconciler.IdleTimeout
    rPc,          \* reconciler: "idle" or "fetched" (between r.Get and the rest of the pass)
    rWs,          \* reconciler: the Workspace as fetched at the start of the pass
    rConflict,    \* the stored resourceVersion moved since the reconciler's fetch
    rOps,         \* write requests issued by the pass that has just returned
    rResult,      \* what the pass that has just returned gave back
    rQuiet,       \* the last pass changed nothing on the platform, and nothing did since
    gPc,          \* gateway: position of each lifecycle call
    gWs,          \* gateway: the Workspace as last read, or as returned, by each call
    gResult,      \* gateway: what each call returned
    gElapsed,     \* gateway: seconds each call has waited in waitForRunning
    gCancelled,   \* gateway: the context of each call is cancelled
    relay,        \* connection: position of each of the two copyFrames tasks
    lastTouch,    \* connection: handleWS's lastTouch, in seconds since the zero time
    clock,        \* connection: the gateway's wall clock, in seconds since the zero time
    touches,      \* connection: the clock at each lastAccessed update of the callback
    index,        \* validator: Validator.index, token hash -> list element (0: no entry)
    lru,          \* validator: Validator.lru, front first
    vCall,        \* validator: each Validate call: position, token, claims held, result
    vNow,         \* validator: the gateway's clock, in minutes
    vLog,         \* validator: the token of each call so far, and whether it went to the provider
    mu,           \* validator: Validator.mu: who holds it ("": nobody)
    serve,        \* proxy: position of ServeWS
    stream,       \* proxy: what the source endpoint of each copyFrames task sends
    nread,        \* proxy: frames each copyFrames task has read
    written,      \* proxy: frames each copyFrames task has written to its destination
    copy,         \* proxy: position of each copyFrames task, and the frame or error it holds
    errc,         \* proxy: ServeWS's error channel
    req,          \* handler: the HTTP request being served
    resp,         \* handler: the response written so far: status and cookies set
    h,            \* handler: position, and the locals rawToken / rawIDToken
    exch,         \* handler: the authorization codes handed to cfg.Exchange
    specEgressPorts,  \* egress: the Workspace's spec.aiConfig.egressPorts
    rEgressPorts,     \* egress: WorkspaceReconciler.EgressPorts
    egressPolicy,     \* egress: the stored egress policy's rule for 0.0.0.0/0
    subjects,         \* identity: the raw sub of the token each caller presents
    userIDs,          \* identity: claims.UserID as Validate derives it for each caller
    appliedID,        \* identity: spec.user.id of a Workspace handed to the reconciler
    idPhase,          \* identity: the phase the reconciler's validation leaves it in
    objects,          \* ownership: each derived object: whether it exists, and its controller
    oWs,              \* ownership: the Workspace: "absent", "present", "deleted", "collected"
    touched           \* ownership: the kinds the reconciler has created or updated

vars == <<ws, owned, pvc, pod, now, image, idleTimeout, rPc, rWs, rConflict,
          rOps, rResult, rQuiet, gPc, gWs, gResult, gElapsed, gCancelled,
          relay, lastTouch, clock, touches,
          index, lru, vCall, vNow, vLog, mu,
          serve, stream, nread, written, copy, errc,
          req, resp, h, exch,
          specEgressPorts, rEgressPorts, egressPolicy,
          subjects, userIDs, appliedID, idPhase,
          objects, oWs, touched>>

platformVars == <<owned, pvc, pod>>
cfgVars      == <<image, idleTimeout>>
cVars        == <<relay, lastTouch, clock, touches>>
rVars        == <<rPc>>
gVars        == <<gPc, gWs, gResult, gElapsed, gCancelled>>
vVars        == <<index, lru, vCall, vNow, vLog, mu>>
\* The gateway's HTTP side: what the reconciler and the lifecycle manager never see.
pVars        == <<serve, stream, nread, written, copy, errc>>
hVars        == <<req, resp, h, exch>>
httpVars     == <<vVars, pVars, hVars>>
eVars        == <<specEgressPorts, rEgressPorts, egressPolicy>>
iVars        == <<subjects, userIDs, appliedID, idPhase>>
oVars        == <<objects, oWs, touched>>
\* The platform, the reconciler, the lifecycle manager and one connection.
coreVars     == <<ws, platformVars, now, cfgVars, rVars, rWs, rConflict, rOps, rResult,
                 rQuiet, gVars, cVars>>

\* The calls (requests) that may be in progress at once, all of the same user.
Callers == {"a", "b"}

\* ------------------------------------------------------------ token validator
\* pkg/gateway, Validator: the cache of verified tokens.  Time is in ticks of
\* 150 seconds.

\* The validator's clock runs from 0 to MaxValidatorClock.
MaxValidatorClock == 3
\* Validate calls that are followed.
MaxLog == 5

\* 5 * time.Minute, in ticks.
tokenCacheTTL == 2
\* 10,000 in the source; the capacity of the scenario of the specification here.
tokenCacheMax == 3

\* Bearer tokens presented to the gateway.  A, B, C, D and E are signed by the
\* provider for this client; A is short-lived; D and E are two tokens of one
\* subject; X is not a token of the provider; M has a body that does not decode.
Tokens == {"A", "B", "C", "D", "E", "X", "M"}

\* What the provider's verifier and the claims decoder find in a token.
TokenBody(t) ==
    CASE t = "A" -> [signed |-> TRUE,  exp |-> 1,   decodes |-> TRUE,  sub |-> <<"a", "l", "i", "c", "e">>, email |-> "alice@example.com"]
      [] t = "B" -> [signed |-> TRUE,  exp |-> 100, decodes |-> TRUE,  sub |-> <<"b", "o", "b">>,   email |-> "bob@example.com"]
      [] t = "C" -> [signed |-> TRUE,  exp |-> 100, decodes |-> TRUE,  sub |-> <<"c", "a", "r", "o", "l">>, email |-> "carol@example.com"]
      [] t = "D" -> [signed |-> TRUE,  exp |-> 100, decodes |-> TRUE,  sub |-> <<"d", "a", "v", "e">>,  email |-> "dave@example.com"]
      [] t = "E" -> [signed |-> TRUE,  exp |-> 100, decodes |-> TRUE,  sub |-> <<"d", "a", "v", "e">>,  email |-> "dave@example.org"]
      [] t = "M" -> [signed |-> TRUE,  exp |-> 100, decodes |-> FALSE, sub |-> <<"m", "a", "l", "l", "o", "r", "y">>, email |-> ""]
      [] OTHER   -> [signed |-> FALSE, exp |-> 0,   decodes |-> FALSE, sub |-> <<>>, email |-> ""]

\* hashToken, lines 162-165: the hex SHA-256 of the raw token, which tells the
\* tokens of this model apart.
hashToken(raw) == "sha256:" \o raw

\* Subjects and user IDs are sequences of one-character strings.
Lower == <<"a", "b", "c", "d", "e", "f", "g", "h", "i", "j", "k", "l", "m", "n", "o", "p", "q", "r", "s", "t", "u", "v", "w", "x", "y", "z">>
Upper == <<"A", "B", "C", "D", "E", "F", "G", "H", "I", "J", "K", "L", "M", "N", "O", "P", "Q", "R", "S", "T", "U", "V", "W", "X", "Y", "Z">>
Digits == {"0", "1", "2", "3", "4", "5", "6", "7", "8", "9"}

\* strings.ToLower, one character.
ToLower(c) ==
    IF \E i \in 1..Len(Upper) : Upper[i] = c
    THEN Lower[CHOOSE i \in 1..Len(Upper) : Upper[i] = c]
    ELSE c

\* The class [a-z0-9] of nonAlphaNum (line 48) and of dnsLabelRegex.
IsAlphaNum(c) == (\E i \in 1..Len(Lower) : Lower[i] = c) \/ c \in Digits

\* nonAlphaNum.ReplaceAllString(s, "-"): each run of other characters becomes
\* one hyphen.
RECURSIVE ReplaceNonAlphaNum(_)
ReplaceNonAlphaNum(s) ==
    IF s = <<>> THEN <<>>
    ELSE IF IsAlphaNum(Head(s)) THEN <<Head(s)>> \o ReplaceNonAlphaNum(Tail(s))
    ELSE IF Len(s) > 1 /\ ~IsAlphaNum(s[2]) THEN ReplaceNonAlphaNum(Tail(s))
    ELSE <<"-">> \o ReplaceNonAlphaNum(Tail(s))

RECURSIVE TrimLeft(_, _)
TrimLeft(s, c) == IF s # <<>> /\ Head(s) = c THEN TrimLeft(Tail(s), c) ELSE s

RECURSIVE TrimRight(_, _)
TrimRight(s, c) ==
    IF s # <<>> /\ s[Len(s)] = c THEN TrimRight(SubSeq(s, 1, Len(s) - 1), c) ELSE s

\* strings.Trim(s, "-").
Trim(s, c) == TrimRight(TrimLeft(s, c), c)

\* The length of a DNS label, as sanitizeUserID and ValidateSpec have it.
LabelMax == 63

\* sanitizeUserID, lines 54-65: lower case, runs of other characters to one
\* hyphen, hyphens trimmed, "u-" before a leading digit, cut to 63 characters
\* and trailing hyphens trimmed again.
sanitizeUserID(sub) ==
    LET lowered  == [i \in 1..Len(sub) |-> ToLower(sub[i])]
        trimmed  == Trim(ReplaceNonAlphaNum(lowered), "-")
        prefixed == IF Len(trimmed) > 0 /\ trimmed[1] \in Digits
                    THEN <<"u", "-">> \o trimmed ELSE trimmed
    IN  IF Len(prefixed) > LabelMax
        THEN TrimRight(SubSeq(prefixed, 1, LabelMax), "-")
        ELSE prefixed

NoClaims == [Sub |-> <<>>, Email |-> "", UserID |-> <<>>]

\* verifier.Verify and idToken.Claims, lines 126-142, at clock value k:
\* signature, expiry (a token is expired once its exp is before now), the
\* decoding of the body, and the claims built from it.
Verify(t, k) ==
    IF ~TokenBody(t).signed \/ TokenBody(t).exp < k
    THEN [err |-> "verify token", claims |-> NoClaims]
    ELSE IF ~TokenBody(t).decodes
    THEN [err |-> "extract claims", claims |-> NoClaims]
    ELSE [err |-> "", claims |-> [Sub    |-> TokenBody(t).sub,
                                  Email  |-> TokenBody(t).email,
                                  UserID |-> sanitizeUserID(TokenBody(t).sub)]]

Keys == {hashToken(t) : t \in Tokens}

\* Names of the list elements (pointers) of one key; 0 is no element.  The
\* list never holds more than tokenCacheMax elements.
Elems == 1..tokenCacheMax

\* A Validate call that is not in progress and has returned nothing.
NoCall == [pc |-> "idle", token |-> "", claims |-> NoClaims, err |-> "", ret |-> NoClaims]

\* NewValidator, lines 75-79: an empty index and an empty list.
ValidatorInit ==
    /\ index = [k \in Keys |-> 0]
    /\ lru = <<>>
    /\ vCall = [c \in Callers |-> NoCall]
    /\ vNow = 0
    /\ vLog = <<>>
    /\ mu = ""

\* A faulty variant of MoveToFront: a hit does not count as a use.
MoveToFront_Stay(l, k, e) == l

\* list.List.  An element is told by its key and its name among the elements
\* of that key: its position, Remove, MoveToFront, PushFront, Back.
RECURSIVE PosOf(_, _, _)
PosOf(l, k, e) == IF l = <<>> THEN 0
                  ELSE IF Head(l).key = k /\ Head(l).id = e THEN 1
                  ELSE IF PosOf(Tail(l), k, e) = 0 THEN 0 ELSE 1 + PosOf(Tail(l), k, e)

Remove(l, k, e) == SelectSeq(l, LAMBDA x : ~(x.key = k /\ x.id = e))

MoveToFront(l, k, e) == <<l[PosOf(l, k, e)]>> \o Remove(l, k, e)

PushFront(l, x) == <<x>> \o l

Back(l) == l[Len(l)]

\* A name for a new element of key k: one that no element of k in the list bears.
NewElem(l, k) == CHOOSE e \in Elems : \A i \in 1..Len(l) : ~(l[i].key = k /\ l[i].id = e)

\* The Validate calls in progress.
InProgress == {c \in Callers : vCall[c].pc # "idle"}

Logged(t, trip) == vLog' = Append(vLog, [token |-> t, trip |-> trip])

ValidatorOnly == UNCHANGED <<coreVars, pVars, hVars, eVars, iVars, oVars>>

\* A faulty variant of the test: an entry is served at the instant it expires.
Unexpired_AtExpiry(entry) == vNow <= entry.expiry

\* Line 114: time.Now().Before(entry.expiry).
Unexpired(entry) == vNow < entry.expiry

\* v.mu.Lock() and v.mu.Unlock() around a critical section that one step runs:
\* the step waits for the mutex to be free and leaves it free.
Locked == mu = "" /\ mu' = ""

\* A faulty variant of the lookup: on a miss the mutex is kept for the round
\* trip (the Unlock of line 124 is not there).
VLookup_HoldsLock(c, t) ==
    /\ vCall[c].pc = "idle"
    /\ Len(vLog) + Cardinality(InProgress) < MaxLog
    /\ mu = ""
    /\ LET key == hashToken(t)
           e   == index[key]
       IN  IF e # 0 /\ Unexpired(lru[PosOf(lru, key, e)])
           THEN /\ lru' = MoveToFront(lru, key, e)
                /\ index' = index
                /\ vCall' = [vCall EXCEPT ![c] = [NoCall EXCEPT !.token = t,
                                      !.ret = lru[PosOf(lru, key, e)].claims]]
                /\ Logged(t, FALSE)
                /\ mu' = ""
           ELSE /\ lru' = IF e # 0 THEN Remove(lru, key, e) ELSE lru
                /\ index' = [index EXCEPT ![key] = 0]
                /\ vCall' = [vCall EXCEPT ![c] = [NoCall EXCEPT !.pc = "verify", !.token = t]]
                /\ vLog' = vLog
                /\ mu' = c
    /\ vNow' = vNow
    /\ ValidatorOnly

\* Validate, lines 109-124, under the mutex: the lookup.  A live entry is moved
\* to the front and its claims are returned; an expired one is removed from
\* list and index, and the call goes on to the provider as on a miss.
VLookup(c, t) ==
    /\ vCall[c].pc = "idle"
    /\ Len(vLog) + Cardinality(InProgress) < MaxLog
    /\ LET key == hashToken(t)
           e   == index[key]
       IN  IF e # 0 /\ Unexpired(lru[PosOf(lru, key, e)])
           THEN /\ lru' = MoveToFront(lru, key, e)
                /\ index' = index
                /\ vCall' = [vCall EXCEPT ![c] = [NoCall EXCEPT !.token = t,
                                      !.ret = lru[PosOf(lru, key, e)].claims]]
                /\ Logged(t, FALSE)
           ELSE /\ lru' = IF e # 0 THEN Remove(lru, key, e) ELSE lru
                /\ index' = [index EXCEPT ![key] = 0]
                /\ vCall' = [vCall EXCEPT ![c] = [NoCall EXCEPT !.pc = "verify", !.token = t]]
                /\ vLog' = vLog
    /\ Locked
    /\ vNow' = vNow
    /\ ValidatorOnly

\* Validate, lines 126-142, with no lock held: the round trip to the provider
\* and the claims.  A token that fails is answered with the error.
VVerify(c) ==
    /\ vCall[c].pc = "verify"
    /\ LET v == Verify(vCall[c].token, vNow)
       IN  vCall' = [vCall EXCEPT ![c] =
                IF v.err # "" THEN [NoCall EXCEPT !.token = vCall[c].token, !.err = v.err]
                ELSE [@ EXCEPT !.pc = "insert", !.claims = v.claims]]
    /\ Logged(vCall[c].token, TRUE)
    /\ UNCHANGED <<index, lru, vNow, mu>>
    /\ ValidatorOnly

\* A faulty variant of the eviction loop: nothing is evicted.
EvictedList_Never(l) == l

\* Lines 146-153: elements are removed from the back, each with the index entry
\* of its key, until the list is below capacity.
RECURSIVE EvictedList(_)
EvictedList(l) == IF Len(l) >= tokenCacheMax THEN EvictedList(SubSeq(l, 1, Len(l) - 1)) ELSE l

RECURSIVE EvictedIndex(_, _)
EvictedIndex(l, ix) ==
    IF Len(l) >= tokenCacheMax
    THEN EvictedIndex(SubSeq(l, 1, Len(l) - 1), [ix EXCEPT ![Back(l).key] = 0])
    ELSE ix

\* Validate, lines 144-159, under the mutex: the insertion, and the return.
VInsert(c) ==
    /\ vCall[c].pc = "insert"
    /\ LET key   == hashToken(vCall[c].token)
           kept  == EvictedList(lru)
           e     == NewElem(kept, key)
           entry == [id |-> e, key |-> key, claims |-> vCall[c].claims,
                     expiry |-> vNow + tokenCacheTTL]
       IN  /\ lru' = PushFront(kept, entry)
           /\ index' = [EvictedIndex(lru, index) EXCEPT ![key] = e]
           /\ vLog' = vLog
    /\ vCall' = [vCall EXCEPT ![c] = [NoCall EXCEPT !.token = vCall[c].token,
                                                   !.ret = vCall[c].claims]]
    /\ Locked
    /\ vNow' = vNow
    /\ ValidatorOnly

\* evictExpired, lines 92-101, under the mutex: every element the index
\* points to whose expiry has passed is removed from list and index.  The
\* ticker fires first after tokenCacheTTL.
Swept == {k \in Keys : index[k] # 0 /\ vNow > lru[PosOf(lru, k, index[k])].expiry}

Sweep ==
    /\ vNow >= tokenCacheTTL
    /\ Swept # {}
    /\ lru' = SelectSeq(lru, LAMBDA x : ~(x.key \in Swept /\ x.id = index[x.key]))
    /\ index' = [k \in Keys |-> IF k \in Swept THEN 0 ELSE index[k]]
    /\ UNCHANGED <<vCall, vNow, vLog>>
    /\ Locked
    /\ ValidatorOnly

\* A minute passes.
VTick ==
    /\ vNow < MaxValidatorClock
    /\ vNow' = vNow + 1
    /\ UNCHANGED <<index, lru, vCall, vLog, mu>>
    /\ ValidatorOnly

\* ------------------------------------------------------------------- proxy
\* pkg/gateway/proxy.go: ServeWS and its two copyFrames tasks, frame by frame.

\* Data frames an endpoint sends on a connection.
MaxFrames == 2

CloseNormalClosure == 1000
CloseGoingAway     == 1001
\* A close code that line 82 does not list (1002, protocol error).
CloseProtocolError == CloseGoingAway + 1

\* The two copyFrames tasks of a connection, named by where they write.
Relays == {"backend", "client"}

\* How the stream of an endpoint ends: it stays open (0), the endpoint sends a
\* close frame with a code, the last of them standing for every other error
\* of a read.
StreamEnds == {0, CloseNormalClosure, CloseGoingAway, CloseProtocolError}

\* The errors of ReadMessage and WriteMessage: a close error with its code, or
\* another error.
CloseError(code) == [text |-> "websocket: close", code |-> code]
OtherError(text) == [text |-> text, code |-> 0]
NoError          == OtherError("")

\* The i-th data frame of an endpoint: text and binary messages.
Frame(i) == [type |-> IF i % 2 = 1 THEN "text" ELSE "binary", data |-> i]

\* Line 83-84: the close message copyFrames writes.
CloseFrame == [type |-> "close", data |-> CloseNormalClosure]

Streams == {[frames |-> [i \in 1..n |-> Frame(i)], end |-> e] : n \in 0..MaxFrames, e \in StreamEnds}

\* Line 82: websocket.IsCloseError(err, CloseNormalClosure, CloseGoingAway).
IsCloseError(err) == err.code \in {CloseNormalClosure, CloseGoingAway}

NoFrame == [type |-> "", data |-> 0]

\* ServeWS is called: nothing is open yet.
ProxyInit ==
    /\ serve = "start"
    /\ stream = [r \in Relays |-> [frames |-> <<>>, end |-> 0]]
    /\ nread = [r \in Relays |-> 0]
    /\ written = [r \in Relays |-> <<>>]
    /\ copy = [r \in Relays |-> [pc |-> "none", frame |-> NoFrame, err |-> NoError]]
    /\ errc = <<>>

ProxyOnly == UNCHANGED <<coreVars, vVars, hVars, eVars, iVars, oVars>>

\* ServeWS has returned: its deferred Close calls have closed both connections.
ConnsClosed == serve \in {"returned", "upgradeFailed", "dialFailed"}

\* ServeWS, lines 41-62: the upgrade, the dial, and the start of the two tasks.
\* What the two endpoints will send on the connections is theirs to choose.
ServeWSOpen ==
    /\ serve = "start"
    /\ \/ serve' \in {"upgradeFailed", "dialFailed"} /\ copy' = copy /\ stream' = stream
       \/ /\ serve' = "wait"
          /\ copy' = [r \in Relays |-> [copy[r] EXCEPT !.pc = "read"]]
          /\ stream' \in [Relays -> Streams]
    /\ UNCHANGED <<nread, written, errc>>
    /\ ProxyOnly

\* ServeWS, lines 64-66: the receive of the first error, and the return.
ServeWSReturn ==
    /\ serve = "wait" /\ errc # <<>>
    /\ errc' = Tail(errc)
    /\ serve' = "returned"
    /\ UNCHANGED <<stream, nread, written, copy>>
    /\ ProxyOnly

\* copyFrames, lines 80-88: ReadMessage.  It gives the next frame, or the
\* error the stream ends with, or an error once the connection is closed
\* under it; it blocks while the endpoint sends nothing.
CfRead(r) ==
    /\ copy[r].pc = "read"
    /\ IF ConnsClosed
       THEN copy' = [copy EXCEPT ![r] = [pc |-> "send", frame |-> NoFrame,
                                           err |-> OtherError("use of closed network connection")]]
            /\ nread' = nread
       ELSE IF nread[r] < Len(stream[r].frames)
       THEN copy' = [copy EXCEPT ![r] = [pc |-> "write", frame |-> stream[r].frames[nread[r] + 1],
                                           err |-> NoError]]
            /\ nread' = [nread EXCEPT ![r] = @ + 1]
       ELSE /\ stream[r].end # 0
            /\ copy' = [copy EXCEPT ![r] =
                    [pc |-> IF IsCloseError(CloseError(stream[r].end)) THEN "close" ELSE "send",
                     frame |-> NoFrame, err |-> CloseError(stream[r].end)]]
            /\ nread' = nread
    /\ UNCHANGED <<serve, stream, written, errc>>
    /\ ProxyOnly

\* copyFrames, lines 83-84: the close message for the destination; its error
\* is dropped.
CfClose(r) ==
    /\ copy[r].pc = "close"
    /\ \/ ~ConnsClosed /\ written' = [written EXCEPT ![r] = Append(@, CloseFrame)]
       \/ written' = written
    /\ copy' = [copy EXCEPT ![r].pc = "send"]
    /\ UNCHANGED <<serve, stream, nread, errc>>
    /\ ProxyOnly

\* A faulty variant of the write: a write that is retried after it went through.
CfWrite_Twice(r) ==
    /\ copy[r].pc = "write"
    /\ \/ /\ ~ConnsClosed
          /\ written' = [written EXCEPT ![r] = Append(Append(@, copy[r].frame), copy[r].frame)]
          /\ copy' = [copy EXCEPT ![r] = [pc |-> "activity", frame |-> NoFrame, err |-> NoError]]
       \/ /\ written' = written
          /\ copy' = [copy EXCEPT ![r] = [pc |-> "send", frame |-> NoFrame,
                                          err |-> OtherError("write failed")]]
    /\ UNCHANGED <<serve, stream, nread, errc>>
    /\ ProxyOnly

\* copyFrames, lines 89-92: WriteMessage of the frame read; it fails on a
\* connection that is closed or broken.
CfWrite(r) ==
    /\ copy[r].pc = "write"
    /\ \/ /\ ~ConnsClosed
          /\ written' = [written EXCEPT ![r] = Append(@, copy[r].frame)]
          /\ copy' = [copy EXCEPT ![r] = [pc |-> "activity", frame |-> NoFrame, err |-> NoError]]
       \/ /\ written' = written
          /\ copy' = [copy EXCEPT ![r] = [pc |-> "send", frame |-> NoFrame,
                                          err |-> OtherError("write failed")]]
    /\ UNCHANGED <<serve, stream, nread, errc>>
    /\ ProxyOnly

\* copyFrames, lines 93-95: the activity callback has run.
CfActivity(r) ==
    /\ copy[r].pc = "activity"
    /\ copy' = [copy EXCEPT ![r].pc = "read"]
    /\ UNCHANGED <<serve, stream, nread, written, errc>>
    /\ ProxyOnly

\* Line 60: make(chan error, 2).
errcCap == 2

\* A faulty variant of the channel, unbuffered: a send goes through only to a
\* receiver that waits.
SendReady_Unbuffered == serve = "wait" /\ errc = <<>>

\* A send on errc goes through while the buffer has room.
SendReady == Len(errc) < errcCap

\* copyFrames, lines 86-87 and 90-91: the error is sent and the task returns.
CfSend(r) ==
    /\ copy[r].pc = "send"
    /\ SendReady
    /\ errc' = Append(errc, copy[r].err)
    /\ copy' = [copy EXCEPT ![r].pc = "done"]
    /\ UNCHANGED <<serve, stream, nread, written>>
    /\ ProxyOnly

\* ------------------------------------------------------------------ handlers
\* cmd/gateway: one request at a time, served for the caller "a".
\* A cookie or a header the request does not carry.
Absent == [present |-> FALSE, value |-> ""]
Carried(v) == [present |-> TRUE, value |-> v]

\* The Authorization header: nothing, or "Bearer <token>".
NoAuth == [scheme |-> "", value |-> ""]
Bearer(t) == [scheme |-> "Bearer", value |-> t]

NoRequest ==
    [path |-> "", auth |-> NoAuth, tokenCookie |-> Absent, tokenQuery |-> "",
     stateCookie |-> Absent, state |-> "", code |-> ""]

\* Requests for /ws: a token in any of the three places, valid or not, or in none.
WsRequests ==
    {[NoRequest EXCEPT !.path = "/ws", !.auth = a, !.tokenCookie = c, !.tokenQuery = q] :
        a \in {NoAuth, Bearer("X")},
        c \in {Absent, Carried(""), Carried("B")},
        q \in {"", "X"}}

\* What the provider's token endpoint gives for an authorization code: an error,
\* or a token set whose id_token is missing, empty, unverifiable or good.
Codes == {"denied", "noid", "emptyid", "forged", "good"}

ExchangeOf(code) ==
    CASE code = "good"    -> [err |-> "", idToken |-> Carried("B")]
      [] code = "forged"  -> [err |-> "", idToken |-> Carried("X")]
      [] code = "emptyid" -> [err |-> "", idToken |-> Carried("")]
      [] code = "noid"    -> [err |-> "", idToken |-> Absent]
      [] OTHER            -> [err |-> "oauth2: cannot fetch token", idToken |-> Absent]

\* Requests for /callback: the devplane_state cookie and the state parameter
\* agree or do not, or are missing.
CallbackRequests ==
    {[NoRequest EXCEPT !.path = "/callback", !.stateCookie = sc, !.state = st, !.code = cd] :
        sc \in {Absent, Carried(""), Carried("s1")},
        st \in {"", "s1", "s2"},
        cd \in Codes}

NoResponse == [status |-> 0, cookies |-> {}]
NoHandler == [pc |-> "idle", rawToken |-> ""]

HandlerInit ==
    /\ req = NoRequest
    /\ resp = NoResponse
    /\ h = NoHandler
    /\ exch = {}

\* extractToken: the Authorization header with the prefix "Bearer ", else a
\* non-empty devplane_token cookie, else a non-empty ?token= parameter.
extractToken(r) ==
    IF r.auth.scheme = "Bearer" THEN [token |-> r.auth.value, err |-> ""]
    ELSE IF r.tokenCookie.present /\ r.tokenCookie.value # ""
         THEN [token |-> r.tokenCookie.value, err |-> ""]
    ELSE IF r.tokenQuery # "" THEN [token |-> r.tokenQuery, err |-> ""]
    ELSE [token |-> "", err |-> "no token in Authorization header, devplane_token cookie, or ?token query param"]

HttpInit == ValidatorInit /\ ProxyInit /\ HandlerInit

\* ------------------------------------------------------------------ egress policy
\* Port lists have up to MaxPorts entries.
MaxPorts == 2

\* Port numbers a list may hold (int32): below, at and above the range's ends.
PortValues == {-1, 0, 1, 22, 443, 65535, 65536}

RECURSIVE SeqsUpTo(_, _)
SeqsUpTo(S, n) ==
    IF n = 0 THEN {<<>>}
    ELSE LET shorter == SeqsUpTo(S, n - 1)
         IN  shorter \cup {Append(l, x) : l \in {t \in shorter : Len(t) = n - 1}, x \in S}

\* What a Workspace may carry in spec.aiConfig.egressPorts: the schema puts no
\* condition on the entries.
SpecPortLists == SeqsUpTo(PortValues, MaxPorts) \cup {<<0, 443, -1, 65536, 22>>}

\* The operator's main, lines 79-94: the entries of EGRESS_PORTS that parse and
\* lie in 1..65535, in the order they are written.
ParseEgressPorts(raw) == SelectSeq(raw, LAMBDA p : ~(p < 1 \/ p > 65535))

OperatorPortLists == {ParseEgressPorts(raw) : raw \in SeqsUpTo({0, 22, 8080}, 2)}

DefaultEgressPorts == <<22, 80, 443, 5000, 8000, 8080, 8081, 11434>>

\* No Workspace applied, no policy stored.
NoPolicy == [exists |-> FALSE, ports |-> <<>>]

EgressInit ==
    /\ specEgressPorts = <<>>
    /\ rEgressPorts = <<>>
    /\ egressPolicy = NoPolicy

EgressOnly == UNCHANGED <<coreVars, httpVars, iVars, oVars>>

\* A Workspace is applied with a list, before the reconciler has seen it.
ApplyEgressPorts ==
    /\ ~egressPolicy.exists
    /\ \E l \in SpecPortLists : specEgressPorts' = l
    /\ UNCHANGED <<rEgressPorts, egressPolicy>>
    /\ EgressOnly

\* The operator is started with a list in EGRESS_PORTS.
OperatorStarts ==
    /\ ~egressPolicy.exists
    /\ \E l \in OperatorPortLists : rEgressPorts' = l
    /\ UNCHANGED <<specEgressPorts, egressPolicy>>
    /\ EgressOnly

\* The Workspace is deleted, and its policy goes with it (owner reference).
RemoveEgressPolicy ==
    /\ egressPolicy.exists
    /\ egressPolicy' = NoPolicy
    /\ specEgressPorts' = <<>>
    /\ UNCHANGED rEgressPorts
    /\ EgressOnly

\* ensureNetworkPolicies, lines 389-395: the Workspace's list, else the
\* operator's, else the built-in one.
ResolvedEgressPorts(specPorts, operatorPorts) ==
    IF Len(specPorts) # 0 THEN specPorts
    ELSE IF Len(operatorPorts) # 0 THEN operatorPorts
    ELSE DefaultEgressPorts

TCPPort(p) == [protocol |-> "TCP", port |-> p]

\* BuildEgressNetworkPolicy, lines 145-156: one TCP entry for each port of the
\* list that lies in 1..65535, in the list's order.
InternetPorts(egressPorts) ==
    LET kept == SelectSeq(egressPorts, LAMBDA p : ~(p < 1 \/ p > 65535))
    IN  [i \in 1..Len(kept) |-> TCPPort(kept[i])]

\* ensureNetworkPolicies, lines 389-408: the egress policy is built from the
\* resolved list and stored as built.
EnsureEgressPolicy ==
    /\ egressPolicy' =
          [exists |-> TRUE,
           ports  |-> InternetPorts(ResolvedEgressPorts(specEgressPorts, rEgressPorts))]
    /\ UNCHANGED <<specEgressPorts, rEgressPorts>>
    /\ EgressOnly

\* ------------------------------------------------------------------ identity
\* n times the character c.
Rep(c, n) == [i \in 1..n |-> c]

\* dnsLabelRegex, line 255: ^[a-z0-9]([a-z0-9\-]*[a-z0-9])?$
dnsLabelRegex(id) ==
    /\ id # <<>>
    /\ \A i \in 1..Len(id) : IsAlphaNum(id[i]) \/ id[i] = "-"
    /\ IsAlphaNum(id[1]) /\ IsAlphaNum(id[Len(id)])

\* ValidateSpec, lines 483-493: what it says of spec.user.id ("" when it has
\* nothing to say; the other fields are the Workspace's valid flag).
ValidateSpec(id) ==
    IF id = <<>> THEN "spec.user.id is required"
    ELSE IF Len(id) > LabelMax THEN "spec.user.id must be 63 characters or fewer"
    ELSE IF ~dnsLabelRegex(id) THEN "spec.user.id must be a valid DNS label"
    ELSE ""

\* The names derived from a user ID: resources.go lines 267, 272, 277, 325 and
\* netpolName, part_014 line 44.
NameSuffixes ==
    {"-workspace-pvc", "-workspace-pod", "-workspace-svc", "-workspace",
     "-workspace-deny-all", "-workspace-egress", "-workspace-ingress-gateway"}

\* The suffixes of the names that have to be DNS labels: the service's, and
\* the pod's, which is its hostname.
LabelSuffixes == {"-workspace-pod", "-workspace-svc"}

\* User IDs go up to MaxIDLen characters; all short ones up to MaxShortLen.
MaxIDLen == 64
MaxShortLen == 2

IDChars == {"a", "0", "-", "A", "_"}

\* A user ID that kubectl may apply: the schema puts no condition on it.
AppliedIDs ==
    {Rep("a", n) : n \in 0..MaxIDLen} \cup SeqsUpTo(IDChars, MaxShortLen)
        \cup {<<"a", "-", "a">>, <<"a", "-", "-">>, <<"0", "_", "0">>}

\* Subjects the provider may issue tokens for.
MaxSubLen == 2
SubChars == {"a", "A", "1", "|", "-", "."}

Subjects ==
    SeqsUpTo(SubChars, MaxSubLen)
        \cup {Rep("a", LabelMax) \o <<c>> : c \in {"a", "b"}}
        \cup {<<"1", "a">> \o Rep("a", LabelMax - 2), <<"u", "-", "1", "a">>}

IdentityInit ==
    /\ subjects = [c \in Callers |-> <<>>]
    /\ userIDs = [c \in Callers |-> <<>>]
    /\ appliedID = <<>>
    /\ idPhase = ""

IdentityOnly == UNCHANGED <<coreVars, httpVars, eVars, oVars>>

\* Validate, lines 131-142, for a token of some subject: claims.UserID is the
\* sanitized sub.
ClaimsExtracted(c) ==
    /\ \E sub \in Subjects :
         /\ subjects' = [subjects EXCEPT ![c] = sub]
         /\ userIDs' = [userIDs EXCEPT ![c] = sanitizeUserID(sub)]
    /\ UNCHANGED <<appliedID, idPhase>>
    /\ IdentityOnly

\* kubectl apply of a Workspace with some spec.user.id.
ApplyUserID ==
    /\ \E id \in AppliedIDs : appliedID' = id
    /\ idPhase' = ""
    /\ UNCHANGED <<subjects, userIDs>>
    /\ IdentityOnly

\* Reconcile, lines 68-74, on a Workspace whose other fields are in order:
\* Failed when ValidateSpec has an error, else the pass goes on (Pending).
ReconcileValidates ==
    /\ idPhase = ""
    /\ idPhase' = IF ValidateSpec(appliedID) # "" THEN WorkspacePhaseFailed
                  ELSE WorkspacePhasePending
    /\ UNCHANGED <<subjects, userIDs, appliedID>>
    /\ IdentityOnly

\* ------------------------------------------------------------------ ownership
\* The objects derived from a Workspace, in the order a pass comes to them:
\* ensureRBAC, ensureNetworkPolicies, the claim, the pod, the service.
ObjectOrder ==
    <<"ServiceAccount", "Role", "RoleBinding", "deny-all", "egress", "ingress-gateway",
      "PVC", "Pod", "Service">>

ObjectKinds == {ObjectOrder[i] : i \in 1..Len(ObjectOrder)}

\* The claim and the pod are created when a Get finds none; the others go
\* through controllerutil.CreateOrUpdate.
CreateOnlyKinds == {"PVC", "Pod"}

\* Kinds of which an object of the derived name may be there before the
\* Workspace is: left by someone else, without a controller or with another.
ForeignKinds == {"ServiceAccount", "PVC", "Service"}

NoObject == [exists |-> FALSE, controller |-> "none"]

\* An object with its controller reference: "this" Workspace, "foreign", "none".
Object(controller) == [exists |-> TRUE, controller |-> controller]

OwnershipInit ==
    /\ objects = [k \in ObjectKinds |-> NoObject]
    /\ oWs = "absent"
    /\ touched = {}

OwnershipOnly == UNCHANGED <<coreVars, httpVars, eVars, iVars>>

\* Someone creates an object under a derived name before the Workspace is there.
ForeignObject(k) ==
    /\ oWs = "absent" /\ k \in ForeignKinds
    /\ ~objects[k].exists
    /\ \E ctl \in {"none", "foreign"} : objects' = [objects EXCEPT ![k] = Object(ctl)]
    /\ UNCHANGED <<oWs, touched>>
    /\ OwnershipOnly

\* The Workspace is applied, once what an earlier one owned is collected.
OwnerApplied ==
    /\ oWs \in {"absent", "collected"}
    /\ oWs' = "present"
    /\ touched' = {}
    /\ UNCHANGED objects
    /\ OwnershipOnly

\* The pass has come as far as the step for kind k: every earlier step has
\* gone through.
Reaches(k) ==
    \A i, j \in 1..Len(ObjectOrder) :
        (ObjectOrder[j] = k /\ i < j) =>
            /\ objects[ObjectOrder[i]].exists
            /\ ObjectOrder[i] \notin CreateOnlyKinds => objects[ObjectOrder[i]].controller = "this"

\* A faulty variant: the object is created as built without the reference.
ReconcileCreates_Unowned(k) ==
    /\ oWs = "present" /\ k \in CreateOnlyKinds /\ Reaches(k)
    /\ ~objects[k].exists
    /\ objects' = [objects EXCEPT ![k] = Object("none")]
    /\ touched' = touched \cup {k}
    /\ UNCHANGED oWs
    /\ OwnershipOnly

\* Reconcile, lines 108-131 and 150-182: the Get finds no claim (no pod); it is
\* built, which sets the controller reference (resources.go 317, 441), and
\* created.  One that is found is used as it is.
ReconcileCreates(k) ==
    /\ oWs = "present" /\ k \in CreateOnlyKinds /\ Reaches(k)
    /\ ~objects[k].exists
    /\ objects' = [objects EXCEPT ![k] = Object("this")]
    /\ touched' = touched \cup {k}
    /\ UNCHANGED oWs
    /\ OwnershipOnly

\* controllerutil.CreateOrUpdate with a mutate function that ends in
\* SetControllerReference (lines 192-211, 303-348, 369-425): the object is
\* created, or updated, with the reference; on an object that another
\* controller owns SetControllerReference fails and nothing is written.
ReconcileEnsures(k) ==
    /\ oWs = "present" /\ k \notin CreateOnlyKinds /\ Reaches(k)
    /\ objects[k] # Object("this")
    /\ IF objects[k].exists /\ objects[k].controller = "foreign"
       THEN UNCHANGED <<objects, touched>>
       ELSE /\ objects' = [objects EXCEPT ![k] = Object("this")]
            /\ touched' = touched \cup {k}
    /\ UNCHANGED oWs
    /\ OwnershipOnly

\* The Workspace is deleted (reconcileDelete has removed the finalizer).
OwnerDeleted ==
    /\ oWs = "present"
    /\ oWs' = "deleted"
    /\ UNCHANGED <<objects, touched>>
    /\ OwnershipOnly

\* The platform's cascade deletion: what refers to the Workspace as its
\* controller goes.
CascadeDelete ==
    /\ oWs = "deleted"
    /\ oWs' = "collected"
    /\ objects' = [k \in ObjectKinds |->
                     IF objects[k].controller = "this" THEN NoObject ELSE objects[k]]
    /\ UNCHANGED touched
    /\ OwnershipOnly

\* ------------------------------------------------------------------ platform
\* Every change of the stored Workspace moves its resourceVersion; the
\* reconciler's later Update / Status().Update carries the version it fetched.
Moved(w) == rPc = "fetched" /\ (rConflict \/ w # ws)

\* rOps, rResult and (while no pass is in flight) rWs describe a pass in the state
\* it returns in; the next step of anyone forgets them.
ForgetPass ==
    /\ rOps' = {} /\ rResult' = "none"
    /\ rWs' = IF rPc = "fetched" THEN rWs ELSE NoWorkspace

\* A step that changes what is stored on the platform, or the clock.
Forget == ForgetPass /\ rQuiet' = FALSE

\* No lifecycle call has been made.
GatewayInit ==
    /\ gPc = [c \in Callers |-> "idle"]
    /\ gWs = [c \in Callers |-> NoWorkspace]
    /\ gResult = [c \in Callers |-> "none"]
    /\ gElapsed = [c \in Callers |-> 0]
    /\ gCancelled = [c \in Callers |-> FALSE]

\* time.Minute, in seconds.
Minute == 60

\* handleWS before ServeWS: lastTouch is the zero time, at least a minute ago.
ConnInit ==
    /\ relay = [r \in Relays |-> "read"]
    /\ lastTouch = 0
    /\ clock = Minute
    /\ touches = <<>>

Init ==
    /\ ConnInit
    /\ HttpInit
    /\ EgressInit
    /\ IdentityInit
    /\ OwnershipInit
    /\ ws = NoWorkspace
    /\ owned = {}
    /\ pvc = "none"
    /\ pod = NoPod
    /\ now = 1
    /\ image = "workspace:1"
    /\ idleTimeout \in {0, IdleCfg}
    /\ rPc = "idle" /\ rWs = NoWorkspace /\ rConflict = FALSE
    /\ rOps = {} /\ rResult = "none" /\ rQuiet = FALSE
    /\ GatewayInit

Tick ==
    /\ now < MaxTime
    /\ now' = now + 1
    /\ Forget
    /\ UNCHANGED <<ws, platformVars, cfgVars, rVars, rConflict, gVars, cVars, httpVars, eVars, iVars, oVars>>

\* Something owned by the Workspace, or by a removed Workspace of that name, is
\* there.
OwnsSomething == owned # {} \/ pvc # "none" \/ pod.exists

\* kubectl apply of a Workspace, with a spec that passes validation or not, once
\* the objects of a removed Workspace of that name are collected.
UserCreate ==
    /\ ~ws.exists /\ ~OwnsSomething
    /\ \E v \in BOOLEAN : ws' = NewWorkspace(v)
    /\ rConflict' = Moved(ws')
    /\ Forget
    /\ UNCHANGED <<platformVars, now, cfgVars, rVars, gVars, cVars, httpVars, eVars, iVars, oVars>>

UserEditSpec ==
    /\ ws.exists /\ ~ws.deleting
    /\ ws' = [ws EXCEPT !.valid = ~ws.valid]
    /\ rConflict' = Moved(ws')
    /\ Forget
    /\ UNCHANGED <<platformVars, now, cfgVars, rVars, gVars, cVars, httpVars, eVars, iVars, oVars>>

\* kubectl delete: with a finalizer the object only gets its deletion timestamp.
UserDelete ==
    /\ ws.exists /\ ~ws.deleting
    /\ ws' = IF ws.finalizer THEN [ws EXCEPT !.deleting = TRUE] ELSE NoWorkspace
    /\ rConflict' = Moved(ws')
    /\ Forget
    /\ UNCHANGED <<platformVars, now, cfgVars, rVars, gVars, cVars, httpVars, eVars, iVars, oVars>>

\* Cascade deletion of everything the removed Workspace owned.
GarbageCollect ==
    /\ ~ws.exists
    /\ OwnsSomething
    /\ owned' = {} /\ pvc' = "none" /\ pod' = NoPod
    /\ Forget
    /\ UNCHANGED <<ws, now, cfgVars, rVars, rConflict, gVars, cVars, httpVars, eVars, iVars, oVars>>

PVCBind ==
    /\ pvc = "Pending" /\ pod.exists
    /\ pvc' = "Bound"
    /\ Forget
    /\ UNCHANGED <<ws, owned, pod, now, cfgVars, rVars, rConflict, gVars, cVars, httpVars, eVars, iVars, oVars>>

PVCLost ==
    /\ pvc = "Bound"
    /\ pvc' = "Lost"
    /\ Forget
    /\ UNCHANGED <<ws, owned, pod, now, cfgVars, rVars, rConflict, gVars, cVars, httpVars, eVars, iVars, oVars>>

\* kubelet: the container starts, becomes ready, loses readiness, fails, gets stuck.
PodStart ==
    /\ pod.exists /\ ~pod.terminating /\ pod.phase = "Pending" /\ pod.waiting \notin FatalWaiting
    /\ pod' = [pod EXCEPT !.phase = "Running", !.waiting = ""]
    /\ Forget
    /\ UNCHANGED <<ws, owned, pvc, now, cfgVars, rVars, rConflict, gVars, cVars, httpVars, eVars, iVars, oVars>>

PodBecomesReady ==
    /\ pod.exists /\ ~pod.terminating /\ pod.phase = "Running" /\ ~pod.ready
    /\ pod' = [pod EXCEPT !.ready = TRUE, !.waiting = ""]
    /\ Forget
    /\ UNCHANGED <<ws, owned, pvc, now, cfgVars, rVars, rConflict, gVars, cVars, httpVars, eVars, iVars, oVars>>

PodUnready ==
    /\ pod.exists /\ ~pod.terminating /\ pod.ready
    /\ pod' = [pod EXCEPT !.ready = FALSE]
    /\ Forget
    /\ UNCHANGED <<ws, owned, pvc, now, cfgVars, rVars, rConflict, gVars, cVars, httpVars, eVars, iVars, oVars>>

PodFails ==
    /\ pod.exists /\ ~pod.terminating /\ pod.phase = "Running"
    /\ pod' = [pod EXCEPT !.phase = "Failed", !.ready = FALSE, !.waiting = ""]
    /\ Forget
    /\ UNCHANGED <<ws, owned, pvc, now, cfgVars, rVars, rConflict, gVars, cVars, httpVars, eVars, iVars, oVars>>

PodWaits ==
    /\ pod.exists /\ ~pod.terminating /\ ~pod.ready /\ pod.waiting = ""
    /\ \E reason \in WaitingReasons(pod.phase) : pod' = [pod EXCEPT !.waiting = reason]
    /\ Forget
    /\ UNCHANGED <<ws, owned, pvc, now, cfgVars, rVars, rConflict, gVars, cVars, httpVars, eVars, iVars, oVars>>

\* The platform removes a terminating pod after its grace period.
PodTerminated ==
    /\ pod.exists /\ pod.terminating
    /\ pod' = NoPod
    /\ Forget
    /\ UNCHANGED <<ws, owned, pvc, now, cfgVars, rVars, rConflict, gVars, cVars, httpVars, eVars, iVars, oVars>>

\* The platform loses a pod at once (node loss, forced deletion).
PodLost ==
    /\ pod.exists /\ ~pod.terminating
    /\ pod' = NoPod
    /\ Forget
    /\ UNCHANGED <<ws, owned, pvc, now, cfgVars, rVars, rConflict, gVars, cVars, httpVars, eVars, iVars, oVars>>

\* The operator is restarted with another WORKSPACE_IMAGE; a pass in flight dies.
OperatorRestart ==
    /\ \E i \in Images : i # image /\ image' = i
    /\ rPc' = "idle" /\ rWs' = NoWorkspace /\ rConflict' = FALSE
    /\ rOps' = {} /\ rResult' = "none" /\ rQuiet' = FALSE
    /\ UNCHANGED <<ws, platformVars, now, idleTimeout, gVars, cVars, httpVars, eVars, iVars, oVars>>

\* ------------------------------------------------------------------ reconciler
\* The reconciler's copy of the fetched Workspace, reduced to what a pass reads of
\* it: every status write of a pass goes through updateStatus, which overwrites
\* podName, serviceEndpoint and message.
Fetched(w) == [w EXCEPT !.podName = "", !.serviceEndpoint = "", !.message = ""]

\* Reconcile, lines 57-61: r.Get of the Workspace.  Not found ends the pass.
ReconcileFetch ==
    /\ rPc = "idle"
    /\ IF ws.exists
       THEN /\ rPc' = "fetched" /\ rWs' = Fetched(ws)
            /\ rOps' = {} /\ rResult' = "none" /\ rQuiet' = rQuiet
       ELSE /\ rOps' = {} /\ rResult' = "done" /\ rQuiet' = TRUE
            /\ rPc' = rPc /\ rWs' = NoWorkspace
    /\ rConflict' = FALSE
    /\ UNCHANGED <<ws, platformVars, now, cfgVars, gVars, cVars, httpVars, eVars, iVars, oVars>>

\* updateStatus: the status fields as set on the reconciler's copy.
updateStatus(s, phase, podName, serviceEndpoint, message, messageOverride) ==
    [s EXCEPT !.phase = phase, !.podName = podName,
              !.serviceEndpoint = serviceEndpoint,
              !.message = IF messageOverride # "" THEN messageOverride ELSE message]

\* A faulty variant of the write check: the platform compares no resourceVersion.
UpdateAccepted_Unversioned == ws.exists

\* r.Update / r.Status().Update carry the fetched resourceVersion: the platform
\* accepts the write only if the stored object has not moved since.
UpdateAccepted == ws.exists /\ ~rConflict

\* The stored Workspace after Status().Update(s): the status sub-resource takes
\* the whole status of the copy and nothing else.
StatusStored(s) ==
    IF UpdateAccepted
    THEN [ws EXCEPT !.phase = s.phase, !.podName = s.podName,
                    !.serviceEndpoint = s.serviceEndpoint, !.message = s.message,
                    !.lastAccessed = s.lastAccessed]
    ELSE ws

\* A faulty variant of isPodReady: the ready condition is not looked at.
isPodReady_Exists(p) == p.exists

isPodReady(p) == p.exists /\ p.ready

PodRunningAndReady(p) == p.phase = "Running" /\ isPodReady(p)

\* A faulty variant of the image check: a terminating pod is deleted again.
ImageChanged_Terminating(p) == p.image # image

\* Lines 179-181: the pod runs another image and is not being deleted.
ImageChanged(p) == p.image # image /\ ~p.terminating

\* A faulty variant of the idle condition: eviction already at the timeout.
IdleExpired_AtTimeout(s, p) ==
    /\ PodRunningAndReady(p)
    /\ idleTimeout > 0
    /\ s.lastAccessed # 0
    /\ now - s.lastAccessed >= idleTimeout

\* Lines 216-218: the idle-timeout condition on the fetched Workspace.
IdleExpired(s, p) ==
    /\ PodRunningAndReady(p)
    /\ idleTimeout > 0
    /\ s.lastAccessed # 0
    /\ now - s.lastAccessed > idleTimeout

\* A faulty variant: only a crash loop counts as fatal.
FatallyWaiting_CrashOnly(p) == p.waiting = "CrashLoopBackOff"

FatallyWaiting(p) == p.waiting \in FatalWaiting

\* r.Delete of the pod: the platform marks it terminating.
DeletedPod(p) == [p EXCEPT !.terminating = TRUE]

\* workspace.BuildPod + r.Create.
BuiltPod == [NoPod EXCEPT !.exists = TRUE, !.image = image, !.phase = "Pending"]

CreateOps(kinds) == {<<"create", k>> : k \in kinds \ owned}

\* The end of a pass.  rQuiet: the pass saw the Workspace as it is stored and
\* left the platform as it found it.
Return(ops, result) ==
    /\ rPc' = "idle" /\ rWs' = rWs /\ rConflict' = FALSE
    /\ rOps' = ops /\ rResult' = result
    /\ rQuiet' = (~rConflict /\ ws' = ws /\ owned' = owned /\ pvc' = pvc /\ pod' = pod)

\* A pass that ends by writing status s: a rejected write is returned as error.
ReturnStatus(s, ops, result) ==
    /\ ws' = StatusStored(s)
    /\ Return(ops \cup {<<"updateStatus", "Workspace">>},
              IF UpdateAccepted THEN result ELSE "error")

\* Lines 63-66, reconcileDelete.
ReconcileDelete ==
    /\ rPc = "fetched" /\ rWs.deleting
    /\ ws' = IF UpdateAccepted THEN NoWorkspace ELSE ws
    /\ UNCHANGED <<platformVars, now, cfgVars, gVars, cVars, httpVars, eVars, iVars, oVars>>
    /\ Return({<<"removeFinalizer", "Workspace">>},
              IF UpdateAccepted THEN "done" ELSE "error")

\* A faulty variant: the spec is validated before the deletion timestamp is
\* looked at.
ReconcileInvalid_First ==
    /\ rPc = "fetched" /\ ~rWs.valid
    /\ UNCHANGED <<platformVars, now, cfgVars, gVars, cVars, httpVars, eVars, iVars, oVars>>
    /\ ReturnStatus(updateStatus(rWs, WorkspacePhaseFailed, "", "", "", MsgInvalid), {}, "done")

\* Lines 68-74.
ReconcileInvalid ==
    /\ rPc = "fetched" /\ ~rWs.deleting /\ ~rWs.valid
    /\ UNCHANGED <<platformVars, now, cfgVars, gVars, cVars, httpVars, eVars, iVars, oVars>>
    /\ ReturnStatus(updateStatus(rWs, WorkspacePhaseFailed, "", "", "", MsgInvalid), {}, "done")

NeedsFinalizer(s) == ~s.deleting /\ s.valid /\ ~s.finalizer

\* Lines 76-83.
ReconcileAddFinalizer ==
    /\ rPc = "fetched" /\ NeedsFinalizer(rWs)
    /\ ws' = IF UpdateAccepted THEN [ws EXCEPT !.finalizer = TRUE] ELSE ws
    /\ UNCHANGED <<platformVars, now, cfgVars, gVars, cVars, httpVars, eVars, iVars, oVars>>
    /\ Return({<<"addFinalizer", "Workspace">>},
              IF UpdateAccepted THEN "requeue" ELSE "error")

\* A faulty variant: the pass goes on without looking at the validation result.
Proceeds_Unvalidated(s) == ~s.deleting /\ s.finalizer

\* A faulty variant: the pass goes on without the finalizer.
Proceeds_Unprotected(s) == ~s.deleting /\ s.valid

Proceeds(s) == ~s.deleting /\ s.valid /\ s.finalizer

\* Lines 85-88.
ReconcileStopped ==
    /\ rPc = "fetched" /\ Proceeds(rWs) /\ rWs.phase = WorkspacePhaseStopped
    /\ UNCHANGED <<ws, platformVars, now, cfgVars, gVars, cVars, httpVars, eVars, iVars, oVars>>
    /\ Return({}, "done")

\* A faulty variant: no short-circuit on the Stopped phase.
Ensures_Stopped(s) == Proceeds(s)

\* The pass goes on to ensure the owned objects.
Ensures(s) == Proceeds(s) /\ s.phase # WorkspacePhaseStopped

\* Lines 96-106: ensureRBAC and ensureNetworkPolicies (CreateOrUpdate).
EnsuredKinds == RBACKinds \cup PolicyKinds

\* A faulty variant: the claim is created anew on every pass.
ReconcileCreatePVC_Always ==
    /\ rPc = "fetched" /\ Ensures(rWs)
    /\ owned' = owned \cup EnsuredKinds
    /\ pvc' = "Pending"
    /\ UNCHANGED <<ws, pod, now, cfgVars, gVars, cVars, httpVars, eVars, iVars, oVars>>
    /\ Return(CreateOps(EnsuredKinds) \cup {<<"create", "PersistentVolumeClaim">>},
              "requeueAfter2s")

\* Lines 108-132: the claim is missing.
ReconcileCreatePVC ==
    /\ rPc = "fetched" /\ Ensures(rWs)
    /\ pvc = "none"
    /\ owned' = owned \cup EnsuredKinds
    /\ pvc' = "Pending"
    /\ UNCHANGED <<ws, pod, now, cfgVars, gVars, cVars, httpVars, eVars, iVars, oVars>>
    /\ Return(CreateOps(EnsuredKinds) \cup {<<"create", "PersistentVolumeClaim">>},
              "requeueAfter2s")

\* Lines 137-143.
ReconcilePVCLost ==
    /\ rPc = "fetched" /\ Ensures(rWs)
    /\ pvc = "Lost"
    /\ owned' = owned \cup EnsuredKinds
    /\ UNCHANGED <<pvc, pod, now, cfgVars, gVars, cVars, httpVars, eVars, iVars, oVars>>
    /\ ReturnStatus(updateStatus(rWs, WorkspacePhaseFailed, "", "", "", MsgPVCLost),
                    CreateOps(EnsuredKinds), "done")

ClaimUsable == pvc \in {"Pending", "Bound"}

\* Lines 151-174: the pod is missing.
ReconcileCreatePod ==
    /\ rPc = "fetched" /\ Ensures(rWs) /\ ClaimUsable
    /\ ~pod.exists
    /\ owned' = owned \cup EnsuredKinds
    /\ pod' = BuiltPod
    /\ UNCHANGED <<ws, pvc, now, cfgVars, gVars, cVars, httpVars, eVars, iVars, oVars>>
    /\ Return(CreateOps(EnsuredKinds) \cup {<<"create", "Pod">>}, "requeueAfter2s")

\* Lines 176-190: image rollout.
ReconcileImageChanged ==
    /\ rPc = "fetched" /\ Ensures(rWs) /\ ClaimUsable
    /\ pod.exists /\ ImageChanged(pod)
    /\ owned' = owned \cup EnsuredKinds
    /\ pod' = DeletedPod(pod)
    /\ UNCHANGED <<ws, pvc, now, cfgVars, gVars, cVars, httpVars, eVars, iVars, oVars>>
    /\ Return(CreateOps(EnsuredKinds) \cup {<<"delete", "Pod">>}, "requeueAfter2s")

\* The pass reaches the service, the idle check and the status projection.
Projects(s) == Ensures(s) /\ ClaimUsable /\ pod.exists /\ ~ImageChanged(pod)

ProjectedKinds == EnsuredKinds \cup {"Service"}

\* Lines 215-229: idle eviction.
ReconcileIdle ==
    /\ rPc = "fetched" /\ Projects(rWs)
    /\ IdleExpired(rWs, pod)
    /\ owned' = owned \cup ProjectedKinds
    /\ pod' = DeletedPod(pod)
    /\ UNCHANGED <<pvc, now, cfgVars, gVars, cVars, httpVars, eVars, iVars, oVars>>
    /\ ReturnStatus(updateStatus(rWs, WorkspacePhaseStopped, "", "", MsgIdle, ""),
                    CreateOps(ProjectedKinds) \cup {<<"delete", "Pod">>}, "done")

\* Lines 231-274: the status projected from the pod.
ProjectedStatus(s, p) ==
    IF PodRunningAndReady(p)
    THEN updateStatus(s, WorkspacePhaseRunning, PodName, ServiceEndpoint, "", "")
    ELSE IF p.phase = "Failed"
    THEN updateStatus(s, WorkspacePhaseFailed, PodName, "", "", "Pod failed")
    ELSE IF FatallyWaiting(p)
    THEN updateStatus(s, WorkspacePhaseFailed, PodName, "", "", "Pod stuck")
    ELSE updateStatus(s, WorkspacePhaseCreating, PodName, ServiceEndpoint,
                      IF p.phase = "" THEN "Pod starting" ELSE "Pod phase: " \o p.phase, "")

\* A faulty variant: a failed pod is looked at again after a while.
ProjectedResult_Retry(p) ==
    IF PodRunningAndReady(p)
    THEN IF idleTimeout > 0 THEN "requeueAfterIdleQuarter" ELSE "done"
    ELSE "requeueAfter5s"

ProjectedResult(p) ==
    IF PodRunningAndReady(p)
    THEN IF idleTimeout > 0 THEN "requeueAfterIdleQuarter" ELSE "done"
    ELSE IF p.phase = "Failed" \/ FatallyWaiting(p) THEN "done" ELSE "requeueAfter5s"

ReconcileProject ==
    /\ rPc = "fetched" /\ Projects(rWs)
    /\ ~IdleExpired(rWs, pod)
    /\ owned' = owned \cup ProjectedKinds
    /\ UNCHANGED <<pvc, pod, now, cfgVars, gVars, cVars, httpVars, eVars, iVars, oVars>>
    /\ ReturnStatus(ProjectedStatus(rWs, pod), CreateOps(ProjectedKinds), ProjectedResult(pod))

\* A pass where the desired image never differs from a pod's.
ReconcileCore ==
    \/ ReconcileFetch
    \/ ReconcileDelete
    \/ ReconcileInvalid
    \/ ReconcileAddFinalizer
    \/ ReconcileStopped
    \/ ReconcileCreatePVC
    \/ ReconcilePVCLost
    \/ ReconcileCreatePod
    \/ ReconcileIdle
    \/ ReconcileProject

Reconcile == ReconcileCore \/ ReconcileImageChanged

\* ------------------------------------------------------------------ gateway
\* client.Status().Patch(ws, client.MergeFrom(patchBase)): a merge patch carries
\* the status fields on which the modified copy differs from its base, and the
\* platform applies them to the stored object whatever its resourceVersion.
MergePatch(stored, base, modified) ==
    [stored EXCEPT
        !.phase           = IF modified.phase # base.phase THEN modified.phase ELSE @,
        !.podName         = IF modified.podName # base.podName THEN modified.podName ELSE @,
        !.serviceEndpoint = IF modified.serviceEndpoint # base.serviceEndpoint
                            THEN modified.serviceEndpoint ELSE @,
        !.message         = IF modified.message # base.message THEN modified.message ELSE @,
        !.lastAccessed    = IF modified.lastAccessed # base.lastAccessed
                            THEN modified.lastAccessed ELSE @]

\* A write of the gateway to the stored Workspace.
GatewayWrites(w) ==
    /\ ws' = w
    /\ rConflict' = Moved(w)
    /\ ForgetPass /\ rQuiet' = (rQuiet /\ w = ws)

GatewayReads ==
    /\ ForgetPass
    /\ UNCHANGED <<ws, rConflict, rQuiet, cVars, httpVars, eVars, iVars, oVars>>

\* Call c returns result and, when it returns a Workspace, the copy w.
GwReturns(c, result, w) ==
    /\ gPc' = [gPc EXCEPT ![c] = "done"]
    /\ gResult' = [gResult EXCEPT ![c] = result]
    /\ gWs' = [gWs EXCEPT ![c] = w]
    /\ gCancelled' = [gCancelled EXCEPT ![c] = FALSE]

\* Call c moves on to position pc holding copy w.
GwGoes(c, pc, w) ==
    /\ gPc' = [gPc EXCEPT ![c] = pc]
    /\ gResult' = [gResult EXCEPT ![c] = "none"]
    /\ gWs' = [gWs EXCEPT ![c] = w]
    /\ gCancelled' = gCancelled

\* The copy with the Stopped phase cleared: lifecycle.go lines 144-146, 174-176.
Restarted(w) == [w EXCEPT !.phase = "", !.message = "", !.podName = ""]

\* EnsureWorkspace lines 89-91 and TouchLastAccessed lines 195-197: the copy gets
\* lastAccessed = metav1.Now(), an instant later than any on the base, so the
\* merge patch carries lastAccessed and nothing else.
Stamped(stored) == [stored EXCEPT !.lastAccessed = now]

\* A faulty variant of the Get: a Stopped Workspace is returned as read.
EeBegin_NoRestart(c) ==
    /\ gPc[c] \in {"idle", "done"}
    /\ IF ~ws.exists THEN GwGoes(c, "ee_create", NoWorkspace)
       ELSE GwReturns(c, "ok", ws)
    /\ GatewayReads
    /\ UNCHANGED <<platformVars, now, cfgVars, rVars, gElapsed, cVars, httpVars, eVars, iVars, oVars>>

\* EnsureExists, lines 104-110 and 140-152: the Get; a Workspace that is not
\* Stopped is returned as read.
EeBegin(c) ==
    /\ gPc[c] \in {"idle", "done"}
    /\ IF ~ws.exists THEN GwGoes(c, "ee_create", NoWorkspace)
       ELSE IF ws.phase = WorkspacePhaseStopped THEN GwGoes(c, "ee_clear", ws)
       ELSE GwReturns(c, "ok", ws)
    /\ GatewayReads
    /\ UNCHANGED <<platformVars, now, cfgVars, rVars, gElapsed, cVars, httpVars, eVars, iVars, oVars>>

\* A faulty variant of the Create: the object is stored whether or not one is
\* there (an upsert).
EeCreate_Upsert(c) ==
    /\ gPc[c] = "ee_create"
    /\ GwReturns(c, "ok", NewWorkspace(TRUE)) /\ GatewayWrites(NewWorkspace(TRUE))
    /\ UNCHANGED <<platformVars, now, cfgVars, rVars, gElapsed, cVars, httpVars, eVars, iVars, oVars>>

\* EnsureExists, lines 112-138: Create; it fails if the Workspace exists by now.
EeCreate(c) ==
    /\ gPc[c] = "ee_create"
    /\ IF ws.exists
       THEN GwReturns(c, "createFailed", NoWorkspace) /\ GatewayReads
       ELSE GwReturns(c, "ok", NewWorkspace(TRUE)) /\ GatewayWrites(NewWorkspace(TRUE))
    /\ UNCHANGED <<platformVars, now, cfgVars, rVars, gElapsed, cVars, httpVars, eVars, iVars, oVars>>

\* EnsureExists, lines 141-150: the patch that clears the Stopped phase; the
\* copy returned is the object the platform answers the patch with.
EeClear(c) ==
    /\ gPc[c] = "ee_clear"
    /\ IF ws.exists
       THEN LET patched == MergePatch(ws, gWs[c], Restarted(gWs[c]))
            IN  GwReturns(c, "ok", patched) /\ GatewayWrites(patched)
       ELSE GwReturns(c, "patchFailed", NoWorkspace) /\ GatewayReads
    /\ UNCHANGED <<platformVars, now, cfgVars, rVars, gElapsed, cVars, httpVars, eVars, iVars, oVars>>

EnsureExists(c) == EeBegin(c) \/ EeCreate(c) \/ EeClear(c)

\* TouchLastAccessed, lines 194-200, from the activity callback of a session.
\* A session is there once EnsureWorkspace has seen the Workspace Running and
\* stamped it (lines 87-93), and may stamp again for as long as it lasts.
TouchLastAccessed ==
    /\ ws.exists
    /\ ws.phase = WorkspacePhaseRunning \/ ws.lastAccessed # 0
    /\ GatewayWrites(Stamped(ws))
    /\ UNCHANGED <<platformVars, now, cfgVars, rVars, gVars, cVars, httpVars, eVars, iVars, oVars>>

\* EnsureWorkspace, lines 47-53: the first Get.
GwBegin(c) ==
    /\ gPc[c] \in {"idle", "done"}
    /\ GwGoes(c, IF ws.exists THEN "poll" ELSE "create", NoWorkspace)
    /\ gElapsed' = [gElapsed EXCEPT ![c] = 0]
    /\ GatewayReads
    /\ UNCHANGED <<platformVars, now, cfgVars, rVars, cVars, httpVars, eVars, iVars, oVars>>

\* EnsureWorkspace, lines 55-80: Create; it fails if the Workspace exists by now.
GwCreate(c) ==
    /\ gPc[c] = "create"
    /\ IF ws.exists
       THEN GwReturns(c, "createFailed", NoWorkspace) /\ GatewayReads
       ELSE GwGoes(c, "poll", NoWorkspace) /\ GatewayWrites(NewWorkspace(TRUE))
    /\ UNCHANGED <<platformVars, now, cfgVars, rVars, gElapsed, cVars, httpVars, eVars, iVars, oVars>>

\* A faulty variant of the switch: a Workspace still Creating is returned.
GwPoll_Eager(c) ==
    /\ gPc[c] = "poll"
    /\ \/ IF ~ws.exists THEN GwReturns(c, "getFailed", NoWorkspace)
          ELSE IF ws.phase \in {WorkspacePhaseRunning, WorkspacePhaseCreating}
          THEN GwGoes(c, "stamp", ws)
          ELSE IF ws.phase = WorkspacePhaseFailed
          THEN GwReturns(c, "workspace failed: " \o ws.message, NoWorkspace)
          ELSE IF ws.phase = WorkspacePhaseStopped THEN GwGoes(c, "clear", ws)
          ELSE GwGoes(c, "sleep", NoWorkspace)
       \/ gCancelled[c] /\ GwReturns(c, "cancelled", NoWorkspace)
    /\ GatewayReads
    /\ UNCHANGED <<platformVars, now, cfgVars, rVars, gElapsed, cVars, httpVars, eVars, iVars, oVars>>

\* A faulty variant of the switch: a Failed Workspace is waited for.
GwPoll_Patient(c) ==
    /\ gPc[c] = "poll"
    /\ \/ IF ~ws.exists THEN GwReturns(c, "getFailed", NoWorkspace)
          ELSE IF ws.phase = WorkspacePhaseRunning THEN GwGoes(c, "stamp", ws)
          ELSE IF ws.phase = WorkspacePhaseStopped THEN GwGoes(c, "clear", ws)
          ELSE GwGoes(c, "sleep", NoWorkspace)
       \/ gCancelled[c] /\ GwReturns(c, "cancelled", NoWorkspace)
    /\ GatewayReads
    /\ UNCHANGED <<platformVars, now, cfgVars, rVars, gElapsed, cVars, httpVars, eVars, iVars, oVars>>

\* waitForRunning, lines 161-180: one fresh Get and the switch on the phase.
\* Under a cancelled context the Get may fail with the context's error.
GwPoll(c) ==
    /\ gPc[c] = "poll"
    /\ \/ IF ~ws.exists THEN GwReturns(c, "getFailed", NoWorkspace)
          ELSE IF ws.phase = WorkspacePhaseRunning THEN GwGoes(c, "stamp", ws)
          ELSE IF ws.phase = WorkspacePhaseFailed
          THEN GwReturns(c, "workspace failed: " \o ws.message, NoWorkspace)
          ELSE IF ws.phase = WorkspacePhaseStopped THEN GwGoes(c, "clear", ws)
          ELSE GwGoes(c, "sleep", NoWorkspace)
       \/ gCancelled[c] /\ GwReturns(c, "cancelled", NoWorkspace)
    /\ GatewayReads
    /\ UNCHANGED <<platformVars, now, cfgVars, rVars, gElapsed, cVars, httpVars, eVars, iVars, oVars>>

\* waitForRunning, lines 173-179: the patch that clears the Stopped phase.
\* Under a cancelled context the patch may fail with the context's error.
GwClear(c) ==
    /\ gPc[c] = "clear"
    /\ \/ IF ws.exists
          THEN /\ GwGoes(c, "sleep", NoWorkspace)
               /\ GatewayWrites(MergePatch(ws, gWs[c], Restarted(gWs[c])))
          ELSE GwReturns(c, "patchFailed", NoWorkspace) /\ GatewayReads
       \/ gCancelled[c] /\ GwReturns(c, "cancelled", NoWorkspace) /\ GatewayReads
    /\ UNCHANGED <<platformVars, now, cfgVars, rVars, gElapsed, cVars, httpVars, eVars, iVars, oVars>>

\* A faulty variant of the loop: the deadline is never looked at.
GwSleep_Forever(c) ==
    /\ gPc[c] = "sleep" /\ ~gCancelled[c]
    /\ gElapsed' = gElapsed
    /\ GwGoes(c, "poll", NoWorkspace)
    /\ GatewayReads
    /\ UNCHANGED <<platformVars, now, cfgVars, rVars, cVars, httpVars, eVars, iVars, oVars>>

workspaceReadyTimeout == 60
workspaceReadyPoll    == 2

\* waitForRunning, lines 182-186 and the loop condition of line 160: the poll
\* interval passes and the deadline is looked at.
GwSleep(c) ==
    /\ gPc[c] = "sleep" /\ ~gCancelled[c]
    /\ gElapsed' = [gElapsed EXCEPT ![c] = @ + workspaceReadyPoll]
    /\ IF gElapsed'[c] < workspaceReadyTimeout
       THEN GwGoes(c, "poll", NoWorkspace)
       ELSE GwReturns(c, "NotReady", NoWorkspace)
    /\ GatewayReads
    /\ UNCHANGED <<platformVars, now, cfgVars, rVars, cVars, httpVars, eVars, iVars, oVars>>

\* The caller of call c cancels its context (the client went away).
CallerCancels(c) ==
    /\ gPc[c] \notin {"idle", "done"} /\ ~gCancelled[c]
    /\ gCancelled' = [gCancelled EXCEPT ![c] = TRUE]
    /\ GatewayReads
    /\ UNCHANGED <<platformVars, now, cfgVars, rVars, gPc, gWs, gResult, gElapsed, cVars, httpVars, eVars, iVars, oVars>>

\* waitForRunning, lines 183-184: the select finds the context cancelled.
GwCancelled(c) ==
    /\ gPc[c] = "sleep" /\ gCancelled[c]
    /\ GwReturns(c, "cancelled", NoWorkspace)
    /\ GatewayReads
    /\ UNCHANGED <<platformVars, now, cfgVars, rVars, gElapsed, cVars, httpVars, eVars, iVars, oVars>>

\* EnsureWorkspace, lines 87-95: stamp lastAccessed, best effort, and return
\* the copy: the platform's answer to the patch, or the local copy when the
\* patch failed (the Workspace is gone, or the context is cancelled).
GwStamp(c) ==
    /\ gPc[c] = "stamp"
    /\ IF ws.exists /\ ~gCancelled[c]
       THEN GwReturns(c, "ok", Stamped(ws)) /\ GatewayWrites(Stamped(ws))
       ELSE GwReturns(c, "ok", Stamped(gWs[c])) /\ GatewayReads
    /\ UNCHANGED <<platformVars, now, cfgVars, rVars, gElapsed, cVars, httpVars, eVars, iVars, oVars>>

\* ------------------------------------------------------------------ failing calls
\* Passes in which a call to the platform fails for a reason of the platform's
\* (admission, quota, a transport error).

\* Stands for the err.Error() of a failed build, create or update.
MsgCallFailed == "call failed"

\* The order of the CreateOrUpdate calls of ensureRBAC and ensureNetworkPolicies.
EnsureOrder ==
    <<"ServiceAccount", "Role", "RoleBinding", "deny-all", "egress", "ingress-gateway">>

EnsuredUpTo(n) == {EnsureOrder[i] : i \in 1..n}

\* Lines 96-106: one of the CreateOrUpdate calls fails; the error is returned.
ReconcileEnsureFails ==
    /\ rPc = "fetched" /\ Ensures(rWs)
    /\ \E n \in 0..(Len(EnsureOrder) - 1) :
         /\ owned' = owned \cup EnsuredUpTo(n)
         /\ UNCHANGED <<ws, pvc, pod, now, cfgVars, gVars, cVars, httpVars, eVars, iVars, oVars>>
         /\ Return(CreateOps(EnsuredUpTo(n + 1)), "error")

\* Lines 110-114 and 152-156: the Get of the claim or of the pod fails with
\* something other than NotFound; the error is returned.
ReconcileGetFails ==
    /\ rPc = "fetched" /\ Ensures(rWs)
    /\ owned' = owned \cup EnsuredKinds
    /\ UNCHANGED <<ws, pvc, pod, now, cfgVars, gVars, cVars, httpVars, eVars, iVars, oVars>>
    /\ Return(CreateOps(EnsuredKinds), "error")

\* Lines 115-129: BuildPVC fails, or the Create of the claim does.
ReconcilePVCFails ==
    /\ rPc = "fetched" /\ Ensures(rWs)
    /\ pvc = "none"
    /\ owned' = owned \cup EnsuredKinds
    /\ UNCHANGED <<pvc, pod, now, cfgVars, gVars, cVars, httpVars, eVars, iVars, oVars>>
    /\ \E built \in BOOLEAN :
         ReturnStatus(updateStatus(rWs, WorkspacePhaseFailed, "", "", "", MsgCallFailed),
                      CreateOps(EnsuredKinds)
                          \cup (IF built THEN {<<"create", "PersistentVolumeClaim">>} ELSE {}),
                      "done")

\* Lines 157-171: BuildPod fails, or the Create of the pod does.
ReconcilePodFails ==
    /\ rPc = "fetched" /\ Ensures(rWs) /\ ClaimUsable
    /\ ~pod.exists
    /\ owned' = owned \cup EnsuredKinds
    /\ UNCHANGED <<pvc, pod, now, cfgVars, gVars, cVars, httpVars, eVars, iVars, oVars>>
    /\ \E built \in BOOLEAN :
         ReturnStatus(updateStatus(rWs, WorkspacePhaseFailed, "", "", "", MsgCallFailed),
                      CreateOps(EnsuredKinds) \cup (IF built THEN {<<"create", "Pod">>} ELSE {}),
                      "done")

\* Lines 192-211: the CreateOrUpdate of the service fails.
ReconcileServiceFails ==
    /\ rPc = "fetched" /\ Projects(rWs)
    /\ owned' = owned \cup EnsuredKinds
    /\ UNCHANGED <<pvc, pod, now, cfgVars, gVars, cVars, httpVars, eVars, iVars, oVars>>
    /\ ReturnStatus(updateStatus(rWs, WorkspacePhaseFailed, "", "", "", MsgCallFailed),
                    CreateOps(ProjectedKinds), "done")

\* Lines 221-223: the Delete of the idle pod fails; the error is returned.
ReconcileIdleDeleteFails ==
    /\ rPc = "fetched" /\ Projects(rWs)
    /\ IdleExpired(rWs, pod)
    /\ owned' = owned \cup ProjectedKinds
    /\ UNCHANGED <<ws, pvc, pod, now, cfgVars, gVars, cVars, httpVars, eVars, iVars, oVars>>
    /\ Return(CreateOps(ProjectedKinds) \cup {<<"delete", "Pod">>}, "error")

ReconcileFails ==
    \/ ReconcileEnsureFails
    \/ ReconcileGetFails
    \/ ReconcilePVCFails
    \/ ReconcilePodFails
    \/ ReconcileServiceFails
    \/ ReconcileIdleDeleteFails

\* ------------------------------------------------------------------ handleWS
HandlerOnly == UNCHANGED <<coreVars, vVars, pVars, eVars, iVars, oVars>>

\* http.Error(w, ..., code), and the handler returns.
Replies(code) ==
    /\ resp' = [resp EXCEPT !.status = code]
    /\ h' = [h EXCEPT !.pc = "done"]

\* The handler goes on to its next call.
GoesOn(pc) ==
    /\ h' = [h EXCEPT !.pc = pc]
    /\ UNCHANGED resp

\* Validate, called by the handler, has returned.
ValidateReturned == vCall["a"].pc = "idle" /\ vCall["a"] # NoCall

\* A request for /ws reaches the gateway.
WsArrives ==
    /\ h.pc = "idle"
    /\ \E r \in WsRequests : req' = r
    /\ h' = [h EXCEPT !.pc = "extract"]
    /\ UNCHANGED <<resp, exch>>
    /\ HandlerOnly

\* handleWS, lines 308-313: no token, 401.
HwsExtract ==
    /\ h.pc = "extract" /\ req.path = "/ws"
    /\ LET e == extractToken(req)
       IN  IF e.err # "" THEN Replies(401)
           ELSE h' = [pc |-> "validate", rawToken |-> e.token] /\ UNCHANGED resp
    /\ UNCHANGED <<req, exch>>
    /\ HandlerOnly

\* handleWS, line 315: the call of validator.Validate.
HwsValidate ==
    /\ h.pc = "validate" /\ req.path = "/ws"
    /\ vCall["a"] = NoCall
    /\ VLookup("a", h.rawToken)

\* A faulty variant: the validator's error is dropped.
HwsValidated_Lenient ==
    /\ h.pc = "validate" /\ req.path = "/ws"
    /\ ValidateReturned
    /\ GoesOn("ensure")
    /\ UNCHANGED <<req, exch>>
    /\ HandlerOnly

\* handleWS, lines 316-320: the token is invalid, 401.
HwsValidated ==
    /\ h.pc = "validate" /\ req.path = "/ws"
    /\ ValidateReturned
    /\ IF vCall["a"].err # "" THEN Replies(401) ELSE GoesOn("ensure")
    /\ UNCHANGED <<req, exch>>
    /\ HandlerOnly

\* handleWS, line 322: the call of lifecycle.EnsureWorkspace.
HwsEnsure ==
    /\ h.pc = "ensure"
    /\ gPc["a"] = "idle"
    /\ GwBegin("a")

\* A faulty variant: the lifecycle manager's error is dropped.
HwsEnsured_Lenient ==
    /\ h.pc = "ensure"
    /\ gPc["a"] = "done"
    /\ GoesOn("proxy")
    /\ UNCHANGED <<req, exch>>
    /\ HandlerOnly

\* handleWS, lines 323-327: EnsureWorkspace failed, 500.
HwsEnsured ==
    /\ h.pc = "ensure"
    /\ gPc["a"] = "done"
    /\ IF gResult["a"] # "ok" THEN Replies(500) ELSE GoesOn("proxy")
    /\ UNCHANGED <<req, exch>>
    /\ HandlerOnly

\* handleWS, line 343: the call of proxy.ServeWS.
HwsServe ==
    /\ h.pc = "proxy"
    /\ ServeWSOpen

\* handleWS, lines 343-346: ServeWS has returned, and so does the handler.  The
\* status is the upgrader's: 101, or 400 when the handshake was refused.
HwsServed ==
    /\ h.pc = "proxy"
    /\ ConnsClosed
    /\ Replies(IF serve = "upgradeFailed" THEN 400 ELSE 101)
    /\ UNCHANGED <<req, exch>>
    /\ HandlerOnly

\* ------------------------------------------------------------------ handleCallback
\* http.SetCookie: a cookie with a value, or one that clears it (MaxAge -1).
SetCookie(name, value) == [name |-> name, value |-> value, cleared |-> FALSE]
ClearCookie(name) == [name |-> name, value |-> "", cleared |-> TRUE]

\* A request for /callback reaches the gateway.
CallbackArrives ==
    /\ h.pc = "idle"
    /\ \E r \in CallbackRequests : req' = r
    /\ h' = [h EXCEPT !.pc = "state"]
    /\ UNCHANGED <<resp, exch>>
    /\ HandlerOnly

\* A faulty variant: the cookie has to be there, its value is not compared.
CbCheckState_Present ==
    /\ h.pc = "state" /\ req.path = "/callback"
    /\ IF ~req.stateCookie.present THEN Replies(400)
       ELSE /\ resp' = [resp EXCEPT !.cookies = @ \cup {ClearCookie("devplane_state")}]
            /\ h' = [h EXCEPT !.pc = "exchange"]
    /\ UNCHANGED <<req, exch>>
    /\ HandlerOnly

\* handleCallback, lines 203-221: the devplane_state cookie has to be there
\* and to equal the state parameter, 400 otherwise; then it is cleared.
CbCheckState ==
    /\ h.pc = "state" /\ req.path = "/callback"
    /\ IF ~req.stateCookie.present THEN Replies(400)
       ELSE IF req.state # req.stateCookie.value THEN Replies(400)
       ELSE /\ resp' = [resp EXCEPT !.cookies = @ \cup {ClearCookie("devplane_state")}]
            /\ h' = [h EXCEPT !.pc = "exchange"]
    /\ UNCHANGED <<req, exch>>
    /\ HandlerOnly

\* handleCallback, lines 223-234: the code is exchanged; 502 when the exchange
\* fails or the token set has no id_token, or an empty one.
CbExchange ==
    /\ h.pc = "exchange" /\ req.path = "/callback"
    /\ exch' = exch \cup {req.code}
    /\ LET token == ExchangeOf(req.code)
       IN  IF token.err # "" THEN Replies(502)
           ELSE IF ~token.idToken.present \/ token.idToken.value = "" THEN Replies(502)
           ELSE h' = [pc |-> "validate", rawToken |-> token.idToken.value] /\ UNCHANGED resp
    /\ UNCHANGED req
    /\ HandlerOnly

\* handleCallback, line 236: the call of validator.Validate.
CbValidate ==
    /\ h.pc = "validate" /\ req.path = "/callback"
    /\ vCall["a"] = NoCall
    /\ VLookup("a", h.rawToken)

\* handleCallback, lines 236-255: 401 when the id_token does not validate; else
\* the session cookie is set and the browser is sent to "/".
CbValidated ==
    /\ h.pc = "validate" /\ req.path = "/callback"
    /\ ValidateReturned
    /\ IF vCall["a"].err # "" THEN Replies(401)
       ELSE /\ resp' = [status |-> 302,
                        cookies |-> resp.cookies \cup {SetCookie("devplane_token", h.rawToken)}]
            /\ h' = [h EXCEPT !.pc = "done"]
    /\ UNCHANGED <<req, exch>>
    /\ HandlerOnly

\* ------------------------------------------------------------------ specifications
Users == UserCreate \/ UserEditSpec \/ UserDelete

Kubelet ==
    \/ PodStart \/ PodBecomesReady \/ PodUnready \/ PodFails \/ PodWaits
    \/ PodTerminated \/ PodLost

\* The reconciler of an operator that is not restarted, against the platform,
\* users and the activity stamps of the gateway.
Next ==
    \/ ReconcileCore
    \/ Tick \/ Users \/ GarbageCollect \/ PVCBind \/ PVCLost \/ Kubelet
    \/ TouchLastAccessed

Spec == Init /\ [][Next]_vars

\* The same, with calls to the platform that fail.
FaultNext ==
    \/ ReconcileCore
    \/ ReconcileFails
    \/ Tick \/ Users \/ GarbageCollect \/ PVCBind \/ PVCLost \/ Kubelet
    \/ TouchLastAccessed

FaultSpec == Init /\ [][FaultNext]_vars

\* EnsureWorkspace of one caller, from no Workspace on, against the reconciler,
\* the pod's life, the clock and a user who deletes the Workspace.
EnsureNext ==
    \/ ReconcileFetch \/ ReconcileDelete \/ ReconcileAddFinalizer \/ ReconcileStopped
    \/ ReconcileCreatePVC \/ ReconcileCreatePod \/ ReconcileIdle \/ ReconcileProject
    \/ Tick \/ UserDelete \/ GarbageCollect
    \/ PodStart \/ PodBecomesReady \/ PodFails \/ PodTerminated
    \/ GwBegin("a") \/ GwCreate("a") \/ GwPoll("a") \/ GwClear("a") \/ GwSleep("a")
    \/ CallerCancels("a") \/ GwCancelled("a") \/ GwStamp("a")

EnsureSpec == Init /\ [][EnsureNext]_vars

\* Image rollout: the operator is restarted with another image.
RolloutNext ==
    \/ Reconcile
    \/ OperatorRestart
    \/ Tick \/ UserCreate \/ UserDelete \/ GarbageCollect \/ PVCBind \/ PVCLost
    \/ PodStart \/ PodBecomesReady \/ PodTerminated
    \/ TouchLastAccessed

RolloutSpec == Init /\ [][RolloutNext]_vars

\* Self-service restart: a Workspace that idle eviction has stopped, its pod
\* terminating, and a user who comes back through /ws.  lastAccessed is what the
\* last activity stamp left: older than the idle timeout, or (a stamp that landed
\* after the eviction) not.
RestartInit ==
    /\ ConnInit
    /\ HttpInit
    /\ EgressInit
    /\ IdentityInit
    /\ OwnershipInit
    /\ \E la \in 1..MaxTime :
         ws = [NewWorkspace(TRUE) EXCEPT !.finalizer = TRUE,
                                         !.phase = WorkspacePhaseStopped,
                                         !.message = MsgIdle,
                                         !.lastAccessed = la]
    /\ owned = ProjectedKinds
    /\ pvc = "Bound"
    /\ pod = [exists |-> TRUE, image |-> "workspace:1", phase |-> "Running",
              ready |-> TRUE, terminating |-> TRUE, waiting |-> ""]
    /\ now = MaxTime
    /\ image = "workspace:1"
    /\ idleTimeout = IdleCfg
    /\ rPc = "idle" /\ rWs = NoWorkspace /\ rConflict = FALSE
    /\ rOps = {} /\ rResult = "none" /\ rQuiet = FALSE
    /\ GatewayInit

\* The pass after its fetch, for a Workspace that stays valid and is not deleted.
RestartPass == ReconcileStopped \/ ReconcileCreatePod \/ ReconcileIdle \/ ReconcileProject

\* EnsureWorkspace of a caller that does not cancel, for a Workspace that exists.
RestartNext ==
    \/ ReconcileFetch \/ RestartPass
    \/ PodStart \/ PodBecomesReady \/ PodTerminated
    \/ GwBegin("a") \/ GwPoll("a") \/ GwClear("a") \/ GwSleep("a") \/ GwStamp("a")

\* The reconciler is re-queued after every pass that leaves work and is triggered
\* by every change of the Workspace and of its pod; kubelet starts every pod and
\* the pod becomes ready; the gateway call runs on.
RestartSpec ==
    /\ RestartInit /\ [][RestartNext]_vars
    /\ WF_vars(ReconcileFetch) /\ WF_vars(RestartPass)
    /\ WF_vars(PodStart) /\ WF_vars(PodBecomesReady) /\ WF_vars(PodTerminated)
    /\ WF_vars(GwBegin("a")) /\ WF_vars(GwPoll("a")) /\ WF_vars(GwClear("a"))
    /\ WF_vars(GwSleep("a")) /\ WF_vars(GwStamp("a"))

\* The blocking wait of EnsureWorkspace, for a caller that may cancel: from no
\* Workspace, or from a Workspace that idle eviction has stopped.
WaitInit == Init \/ RestartInit

WaitNext ==
    \/ ReconcileFetch \/ ReconcileAddFinalizer \/ ReconcileStopped
    \/ ReconcileCreatePVC \/ ReconcileCreatePod \/ ReconcileIdle \/ ReconcileProject
    \/ PodStart \/ PodBecomesReady \/ PodFails \/ PodTerminated
    \/ GwBegin("a") \/ GwCreate("a") \/ GwPoll("a") \/ GwClear("a") \/ GwSleep("a")
    \/ CallerCancels("a") \/ GwCancelled("a") \/ GwStamp("a")

\* A call that has begun runs on: the gateway's goroutine is scheduled, the
\* platform answers every request and the timers of the select fire.  Nothing
\* is assumed of the reconciler or of the pod.
WaitSpec ==
    /\ WaitInit /\ [][WaitNext]_vars
    /\ WF_vars(GwCreate("a")) /\ WF_vars(GwPoll("a")) /\ WF_vars(GwClear("a"))
    /\ WF_vars(GwSleep("a")) /\ WF_vars(GwCancelled("a")) /\ WF_vars(GwStamp("a"))

\* Two calls for the same user at once, each EnsureWorkspace or EnsureExists,
\* against the reconciler, the pod and a user who deletes the Workspace.  A call
\* of EnsureWorkspace is followed up to its first wait.
ConcurrentNext ==
    \/ ReconcileFetch \/ ReconcileDelete \/ ReconcileAddFinalizer \/ ReconcileStopped
    \/ ReconcileCreatePVC \/ ReconcileCreatePod \/ ReconcileIdle \/ ReconcileProject
    \/ UserDelete \/ GarbageCollect
    \/ PodStart \/ PodBecomesReady \/ PodTerminated
    \/ GwBegin("a") \/ GwCreate("a") \/ GwPoll("a") \/ GwClear("a") \/ GwStamp("a")
    \/ GwBegin("b") \/ GwCreate("b") \/ GwPoll("b") \/ GwClear("b") \/ GwStamp("b")
    \/ EeBegin("a") \/ EeCreate("a") \/ EeClear("a")
    \/ EeBegin("b") \/ EeCreate("b") \/ EeClear("b")

ConcurrentSpec == WaitInit /\ [][ConcurrentNext]_vars

\* Two EnsureWorkspace calls at once for a user who has no Workspace, against
\* the reconciler and the pod.  Each call is followed up to its first wait.
RaceNext ==
    \/ ReconcileFetch \/ ReconcileAddFinalizer
    \/ ReconcileCreatePVC \/ ReconcileCreatePod \/ ReconcileProject
    \/ PodStart \/ PodBecomesReady
    \/ GwBegin("a") \/ GwCreate("a") \/ GwPoll("a") \/ GwStamp("a")
    \/ GwBegin("b") \/ GwCreate("b") \/ GwPoll("b") \/ GwStamp("b")

RaceSpec == Init /\ [][RaceNext]_vars

\* Idle eviction left to itself.  A Workspace has just been stored, by kubectl
\* apply (no gateway call) or by an EnsureWorkspace call that now waits for it;
\* idle eviction is switched on.
IdleInit ==
    /\ ConnInit
    /\ HttpInit
    /\ EgressInit
    /\ IdentityInit
    /\ OwnershipInit
    /\ ws = NewWorkspace(TRUE)
    /\ owned = {}
    /\ pvc = "none"
    /\ pod = NoPod
    /\ now = 1
    /\ image = "workspace:1"
    /\ idleTimeout = IdleCfg
    /\ rPc = "idle" /\ rWs = NoWorkspace /\ rConflict = FALSE
    /\ rOps = {} /\ rResult = "none" /\ rQuiet = FALSE
    /\ \E pc \in {"idle", "poll"} : gPc = [c \in Callers |-> IF c = "a" THEN pc ELSE "idle"]
    /\ gWs = [c \in Callers |-> NoWorkspace]
    /\ gResult = [c \in Callers |-> "none"]
    /\ gElapsed = [c \in Callers |-> 0]
    /\ gCancelled = [c \in Callers |-> FALSE]

\* The pass after its fetch, for a valid Workspace that nobody deletes.
IdlePass ==
    \/ ReconcileAddFinalizer \/ ReconcileStopped \/ ReconcileCreatePVC
    \/ ReconcileCreatePod \/ ReconcileIdle \/ ReconcileProject

\* The reconciler, the pod, the clock and the one call; no session stamps.
IdleNext ==
    \/ ReconcileFetch \/ IdlePass
    \/ PodStart \/ PodBecomesReady \/ PodTerminated
    \/ Tick
    \/ GwPoll("a") \/ GwSleep("a") \/ GwStamp("a")

\* Time passes; the reconciler runs again after every pass (a Running Workspace
\* is re-queued after IdleTimeout / 4, line 240, an unfinished one after 5 s, a
\* rejected write with back-off); kubelet starts and ends pods; the call runs on.
IdleSpec ==
    /\ IdleInit /\ [][IdleNext]_vars
    /\ WF_vars(Tick)
    /\ WF_vars(ReconcileFetch) /\ WF_vars(IdlePass)
    /\ WF_vars(PodStart) /\ WF_vars(PodBecomesReady) /\ WF_vars(PodTerminated)
    /\ WF_vars(GwPoll("a")) /\ WF_vars(GwSleep("a")) /\ WF_vars(GwStamp("a"))

\* The validator under two concurrent Validate calls, the sweeper and the clock.
ConcurrentTokens == {"A", "B"}

TokenNext ==
    \/ \E c \in Callers, t \in ConcurrentTokens : VLookup(c, t)
    \/ \E c \in Callers : VVerify(c)
    \/ \E c \in Callers : VInsert(c)
    \/ Sweep
    \/ VTick

TokenSpec == Init /\ [][TokenNext]_vars

\* The validator called by one caller at a time, within the life of its entries.
SequentialTokens == {"A", "B", "C", "D", "X", "M"}

LruNext ==
    \/ \E t \in SequentialTokens : VLookup("a", t)
    \/ VVerify("a")
    \/ VInsert("a")

LruSpec == Init /\ [][LruNext]_vars

\* One call of ServeWS: the two endpoints send what they send, the tasks and
\* ServeWS are scheduled, and a read returns once a frame, an error or the
\* close of the connection is there.
\* One request for /ws, from its arrival to the call of ServeWS (what the relay
\* does from there is ProxySpec's), next to the reconciler and the pod that bring
\* the user's Workspace up, or fail to.
HandleWSNext ==
    \/ WsArrives \/ HwsExtract
    \/ HwsValidate \/ VVerify("a") \/ VInsert("a") \/ HwsValidated
    \/ HwsEnsure \/ GwCreate("a") \/ GwPoll("a") \/ GwSleep("a") \/ GwStamp("a")
    \/ HwsEnsured
    \/ HwsServe \/ HwsServed
    \/ ReconcileFetch \/ ReconcileAddFinalizer \/ ReconcileCreatePVC
    \/ ReconcileCreatePod \/ ReconcileProject
    \/ PVCBind \/ PodStart \/ PodBecomesReady \/ PodFails

\* Idle eviction is switched off: no step of it is among those above.
HandleWSInit == Init /\ idleTimeout = 0

HandleWSSpec == HandleWSInit /\ [][HandleWSNext]_vars

\* One request for /callback, from its arrival to the handler's return.
CallbackNext ==
    \/ CallbackArrives \/ CbCheckState \/ CbExchange
    \/ CbValidate \/ VVerify("a") \/ VInsert("a") \/ CbValidated

CallbackSpec == Init /\ [][CallbackNext]_vars

\* Port lists are applied, and the reconciler ensures the egress policy.
EgressNext == ApplyEgressPorts \/ OperatorStarts \/ EnsureEgressPolicy \/ RemoveEgressPolicy

EgressSpec == Init /\ [][EgressNext]_vars

\* Workspaces are applied with user IDs of every shape, and validated.
UserIDNext == ApplyUserID \/ ReconcileValidates

UserIDSpec == Init /\ [][UserIDNext]_vars

\* Two callers present tokens of subjects of every shape.
SubjectNext == \E c \in Callers : ClaimsExtracted(c)

SubjectSpec == Init /\ [][SubjectNext]_vars

\* A Workspace's objects from its creation to the cascade deletion.
OwnershipNext ==
    \/ \E k \in ObjectKinds : ForeignObject(k)
    \/ OwnerApplied
    \/ \E k \in ObjectKinds : ReconcileCreates(k)
    \/ \E k \in ObjectKinds : ReconcileEnsures(k)
    \/ OwnerDeleted
    \/ CascadeDelete

OwnershipSpec == Init /\ [][OwnershipNext]_vars

ProxyNext ==
    \/ ServeWSOpen \/ ServeWSReturn
    \/ \E r \in Relays : CfRead(r)
    \/ \E r \in Relays : CfClose(r)
    \/ \E r \in Relays : CfWrite(r)
    \/ \E r \in Relays : CfActivity(r)
    \/ \E r \in Relays : CfSend(r)

ProxySpec ==
    /\ Init /\ [][ProxyNext]_vars
    /\ WF_vars(ServeWSReturn)
    /\ \A r \in Relays : WF_vars(CfRead(r)) /\ WF_vars(CfClose(r)) /\ WF_vars(CfWrite(r))
                          /\ WF_vars(CfActivity(r)) /\ WF_vars(CfSend(r))

\* ---------------------------------------------------------------------------
\* One WebSocket connection: handleWS's activity callback (cmd/gateway/main.go)
\* run by the two copyFrames tasks of ServeWS (pkg/gateway/proxy.go).

MaxClock == 180
ClockStep == 30
MaxTouches == 4

\* ServeWS has returned, and with it handleWS: the request context is cancelled.
Closed == \E r \in Relays : relay[r] = "returned"

ClockTick ==
    /\ clock + ClockStep <= MaxClock
    /\ clock' = clock + ClockStep
    /\ UNCHANGED <<ws, platformVars, now, cfgVars, rVars, rWs, rConflict, rOps,
                   rResult, rQuiet, gVars, relay, lastTouch, touches, httpVars, eVars, iVars, oVars>>

ConnOnly == UNCHANGED <<ws, platformVars, now, cfgVars, rVars, rWs, rConflict, rOps,
                        rResult, rQuiet, gVars, clock, touches, httpVars, eVars, iVars, oVars>>

\* copyFrames: a frame is read and written on; onActivity is called next.
RelayForward(r) ==
    /\ relay[r] = "read" /\ ~Closed
    /\ Len(touches) + 2 <= MaxTouches
    /\ relay' = [relay EXCEPT ![r] = "check"]
    /\ lastTouch' = lastTouch
    /\ ConnOnly

\* copyFrames: ReadMessage or WriteMessage fails; the task reports and returns.
RelayFails(r) ==
    /\ relay[r] = "read"
    /\ relay' = [relay EXCEPT ![r] = "returned"]
    /\ lastTouch' = lastTouch
    /\ ConnOnly

\* onActivity: the read of lastTouch and the comparison with a minute.
RelayCheck(r) ==
    /\ relay[r] = "check"
    /\ relay' = [relay EXCEPT ![r] = IF clock - lastTouch < Minute THEN "read" ELSE "store"]
    /\ lastTouch' = lastTouch
    /\ ConnOnly

\* onActivity: lastTouch = time.Now().
RelayStore(r) ==
    /\ relay[r] = "store"
    /\ relay' = [relay EXCEPT ![r] = "touch"]
    /\ lastTouch' = clock
    /\ ConnOnly

\* onActivity: lifecycle.TouchLastAccessed; under a cancelled context the patch
\* fails and is logged.
RelayTouch(r) ==
    /\ relay[r] = "touch"
    /\ relay' = [relay EXCEPT ![r] = "read"]
    /\ lastTouch' = lastTouch
    /\ IF ws.exists /\ ~Closed
       THEN touches' = Append(touches, clock) /\ GatewayWrites(Stamped(ws))
       ELSE touches' = touches /\ GatewayReads
    /\ UNCHANGED <<platformVars, now, cfgVars, rVars, gVars, clock, httpVars, eVars, iVars, oVars>>

\* A connection to a Workspace that EnsureWorkspace has returned Running.
WSInit ==
    /\ ConnInit
    /\ HttpInit
    /\ EgressInit
    /\ IdentityInit
    /\ OwnershipInit
    /\ ws = [NewWorkspace(TRUE) EXCEPT !.finalizer = TRUE,
                                       !.phase = WorkspacePhaseRunning,
                                       !.podName = PodName,
                                       !.serviceEndpoint = ServiceEndpoint,
                                       !.lastAccessed = 1]
    /\ owned = ProjectedKinds
    /\ pvc = "Bound"
    /\ pod = [exists |-> TRUE, image |-> "workspace:1", phase |-> "Running",
              ready |-> TRUE, terminating |-> FALSE, waiting |-> ""]
    /\ now = 1
    /\ image = "workspace:1"
    /\ idleTimeout \in {0, IdleCfg}
    /\ rPc = "idle" /\ rWs = NoWorkspace /\ rConflict = FALSE
    /\ rOps = {} /\ rResult = "none" /\ rQuiet = FALSE
    /\ GatewayInit

WSNext ==
    \/ ClockTick
    \/ \E r \in Relays : RelayForward(r)
    \/ \E r \in Relays : RelayFails(r)
    \/ \E r \in Relays : RelayCheck(r)
    \/ \E r \in Relays : RelayStore(r)
    \/ \E r \in Relays : RelayTouch(r)

SpecWS == WSInit /\ [][WSNext]_vars


\* ------------------------------------------------------------------ claims
\* The stored lastAccessed is older than the idle timeout.
StoredIdle == idleTimeout > 0 /\ ws.lastAccessed # 0 /\ now - ws.lastAccessed > idleTimeout

\* C1: self-service restart.  Whenever EnsureWorkspace polls a Workspace that
\* idle eviction has stopped (idle timeout configured, stored lastAccessed older
\* than the timeout), the phase eventually is Running and the call returns the
\* Workspace.
C1_SelfServiceRestart ==
    (gPc["a"] = "poll" /\ ws.phase = WorkspacePhaseStopped /\ StoredIdle)
        ~> (ws.phase = WorkspacePhaseRunning /\ gPc["a"] = "done" /\ gResult["a"] = "ok")

\* What the code does instead in that scenario: no schedule of the reconciler,
\* the pod and the gateway ever brings the phase to Running.
StaleRestartNeverRunning == StoredIdle => ws.phase # WorkspacePhaseRunning

\* ---------------------------------------------------------------------------
\* Reconcile passes as steps.

\* The step in which a pass returns (an operator restart returns nothing).
PassReturns == rPc = "fetched" /\ rPc' = "idle" /\ rResult' # "none"

StatusOp == <<"updateStatus", "Workspace">>
DeletePodOp == <<"delete", "Pod">>

\* The pod as the phase Running describes it.
PodServes == pod.exists /\ pod.phase = "Running" /\ pod.ready

\* C2 as stated: in every reachable state where the phase is Running, the pod
\* exists and is ready, also between a pod's deletion and the next status write.
C2_RunningHasReadyPod == ws.phase = WorkspacePhaseRunning => pod.exists /\ pod.ready

\* C2, amended: the phase becomes Running, or is written as Running again, only
\* by the accepted status write of a reconcile pass that found the pod existing,
\* running and ready and that leaves that pod alone; between a pod's deletion or loss of readiness and the
\* next accepted status write the phase may still read Running.
C2_RunningWrittenForReadyPod ==
    [][ (ws'.phase = WorkspacePhaseRunning
            /\ (\/ ws.phase # WorkspacePhaseRunning
                \/ (PassReturns /\ StatusOp \in rOps' /\ rResult' # "error")))
        => (PassReturns /\ PodServes /\ pod' = pod) ]_vars

\* A pass has just written Running for a serving pod.
C2_Witness ==
    /\ ws.phase = WorkspacePhaseRunning /\ StatusOp \in rOps /\ rResult # "error"
    /\ PodServes

\* C3: a status write of the reconciler that would overwrite a lastAccessed
\* stamped after the pass fetched the Workspace is rejected as a conflict and
\* the pass returns an error (so it is re-queued); no pass ever changes the
\* stored lastAccessed.
C3_StampSurvivesStatusWrite ==
    [][ PassReturns =>
          /\ (ws'.exists => ws'.lastAccessed = ws.lastAccessed)
          /\ (StatusOp \in rOps' /\ ws.exists /\ ws.lastAccessed # rWs.lastAccessed
                => ws' = ws /\ rResult' = "error") ]_vars

\* A pass has just had its status write rejected over a newer stamp.
C3_Witness ==
    /\ rPc = "idle" /\ rResult = "error" /\ StatusOp \in rOps
    /\ ws.exists /\ rWs.exists /\ ws.lastAccessed > rWs.lastAccessed

\* C4 as stated: the phase becomes Stopped only from Running.
C4_StoppedOnlyFromRunning ==
    [][ (ws'.phase = WorkspacePhaseStopped /\ ws.phase # WorkspacePhaseStopped)
        => ws.phase = WorkspacePhaseRunning ]_vars

\* A pass that gets as far as the idle check (lines 215-229) with nobody else
\* writing the Workspace while it runs.
ReachesIdleCheck ==
    /\ rPc = "fetched" /\ ~rConflict /\ ws.exists /\ Fetched(ws) = rWs
    /\ ~rWs.deleting /\ rWs.valid /\ rWs.finalizer /\ rWs.phase # WorkspacePhaseStopped
    /\ pvc \in {"Pending", "Bound"}
    /\ pod.exists /\ (pod.image = image \/ pod.terminating)

C6_SecondPassWritesNothing ==
    [][ (rQuiet /\ PassReturns) => rOps' = {} ]_vars

\* A pass that gets as far as the pod step (lines 145-190).
ReachesPodStep ==
    /\ rPc = "fetched"
    /\ ~rWs.deleting /\ rWs.valid /\ rWs.finalizer /\ rWs.phase # WorkspacePhaseStopped
    /\ pvc \in {"Pending", "Bound"}

CreatePodOp == <<"create", "Pod">>
ClaimOps == {<<"create", "PersistentVolumeClaim">>, <<"delete", "PersistentVolumeClaim">>}

\* The pass deletes a pod of another image and leaves the claim alone.
RolloutDeletes ==
    (pod.exists /\ pod.image # image /\ ~pod.terminating)
        => /\ DeletePodOp \in rOps' /\ pod' = [pod EXCEPT !.terminating = TRUE]
           /\ pvc' = pvc /\ rOps' \cap ClaimOps = {}
           /\ StatusOp \notin rOps'

AddFinalizerOp == <<"addFinalizer", "Workspace">>
RemoveFinalizerOp == <<"removeFinalizer", "Workspace">>

\* C9: a pass on a valid, non-deleting Workspace without the finalizer only adds
\* the finalizer, persists it and asks for a re-queue; an owned object is
\* created only while the stored Workspace carries the finalizer; a Workspace
\* that owns something is removed only by the deletion branch.
C9_FinalizerFirst ==
    [][ /\ (PassReturns /\ rWs.valid /\ ~rWs.deleting /\ ~rWs.finalizer)
            => /\ rOps' = {AddFinalizerOp}
               /\ owned' = owned /\ pvc' = pvc /\ pod' = pod
               /\ \/ rResult' = "requeue" /\ ws' = [ws EXCEPT !.finalizer = TRUE]
                  \/ rResult' = "error" /\ ws' = ws
        /\ (owned' \ owned # {} \/ (pvc = "none" /\ pvc' # "none") \/ (~pod.exists /\ pod'.exists))
            => (PassReturns /\ ws.exists /\ ws.finalizer /\ ws'.finalizer)
        /\ (ws.exists /\ ~ws'.exists /\ OwnsSomething)
            => (PassReturns /\ rWs.deleting /\ RemoveFinalizerOp \in rOps') ]_vars

\* A pass has just added the finalizer to a Workspace that owns nothing yet.
C9_Witness ==
    /\ rPc = "idle" /\ rOps = {AddFinalizerOp} /\ rResult = "requeue"
    /\ ws.exists /\ ws.finalizer /\ ~rWs.finalizer
    /\ ~OwnsSomething

\* C10: the pass on a Workspace with a deletion timestamp removes the finalizer
\* and does nothing else, whatever the phase and whether or not the spec is
\* valid: no status write, no owned object created, updated or deleted.
C10_DeletionBranch ==
    [][ (PassReturns /\ rWs.deleting) =>
          /\ rOps' = {RemoveFinalizerOp}
          /\ owned' = owned /\ pvc' = pvc /\ pod' = pod
          /\ \/ rResult' = "done" /\ ws.exists /\ ~ws'.exists
             \/ rResult' = "error" /\ ws' = ws ]_vars

\* The deletion branch has just removed a Stopped Workspace of invalid spec
\* whose objects are still there.
C10_Witness ==
    /\ rPc = "idle" /\ rOps = {RemoveFinalizerOp} /\ rResult = "done"
    /\ ~ws.exists
    /\ rWs.deleting /\ rWs.phase = WorkspacePhaseStopped /\ ~rWs.valid
    /\ OwnsSomething

\* C7 as stated: the activity callback of one connection updates lastAccessed
\* at most once per 60 s, also when both relay tasks call it concurrently.
C7_TouchOncePerMinute ==
    \A i, j \in 1..Len(touches) : i < j => touches[j] - touches[i] >= Minute

\* C11: a pass on a Workspace fetched in phase Stopped (finalizer present, no
\* deletion timestamp, valid spec) issues no write and changes nothing: no owned
\* object is created, updated or deleted and the status stays as stored; the
\* phase of such a Workspace leaves Stopped only by the gateway's clearing patch.
C11_StoppedPassWritesNothing ==
    [][ /\ (PassReturns /\ rWs.phase = WorkspacePhaseStopped
                /\ rWs.finalizer /\ ~rWs.deleting /\ rWs.valid)
            => /\ rOps' = {} /\ rResult' = "done"
               /\ ws' = ws /\ owned' = owned /\ pvc' = pvc /\ pod' = pod
        /\ (ws.phase = WorkspacePhaseStopped /\ ws.finalizer /\ ~ws.deleting /\ ws.valid
                /\ ws'.phase # WorkspacePhaseStopped)
            => /\ \E c \in Callers : gPc[c] \in {"clear", "ee_clear"} /\ gPc'[c] # gPc[c]
               /\ ws' = [ws EXCEPT !.phase = "", !.message = "", !.podName = ""] ]_vars

\* A pass on a Stopped Workspace has just returned with nothing done.
C11_Witness ==
    /\ rPc = "idle" /\ rResult = "done" /\ rOps = {} /\ rQuiet
    /\ rWs.exists /\ rWs.phase = WorkspacePhaseStopped
    /\ ws.phase = WorkspacePhaseStopped /\ ws.finalizer /\ ~ws.deleting /\ ws.valid

\* C12: the pass on a Workspace whose spec fails validation issues one status
\* write, phase Failed with the validation message, and creates no pod, no
\* claim, no service, no RBAC object and no network policy.
C12_InvalidSpecFails ==
    [][ (PassReturns /\ ~rWs.deleting /\ ~rWs.valid) =>
          /\ rOps' = {StatusOp}
          /\ owned' = owned /\ pvc' = pvc /\ pod' = pod
          /\ \/ /\ rResult' = "done"
                /\ ws'.phase = WorkspacePhaseFailed /\ ws'.message = MsgInvalid
                /\ ws'.podName = "" /\ ws'.serviceEndpoint = ""
             \/ rResult' = "error" /\ ws' = ws ]_vars

\* A pass has just failed a Workspace of invalid spec that owns nothing.
C12_Witness ==
    /\ rPc = "idle" /\ rOps = {StatusOp} /\ rResult = "done"
    /\ ~rWs.valid /\ ~ws.valid
    /\ ws.phase = WorkspacePhaseFailed /\ ws.message = MsgInvalid
    /\ ~OwnsSomething

\* C13: a pass whose accepted status write settles the phase to Failed returns
\* no error and asks for no re-queue; a pass that returns an error leaves the
\* stored Workspace, its phase included, as it was.
C13_FailedIsSettled ==
    [][ PassReturns =>
          /\ (StatusOp \in rOps' /\ rResult' # "error" /\ ws'.phase = WorkspacePhaseFailed)
                => rResult' = "done"
          /\ rResult' = "error" => ws' = ws ]_vars

\* A pass has just settled a Workspace to Failed over a claim it could not create.
C13_Witness ==
    /\ rPc = "idle" /\ rResult = "done"
    /\ StatusOp \in rOps /\ <<"create", "PersistentVolumeClaim">> \in rOps
    /\ pvc = "none"
    /\ ws.phase = WorkspacePhaseFailed /\ ws.message = MsgCallFailed

\* A pass that gets as far as the status projection (lines 231-274): the pod is
\* there, its image is the desired one or it is terminating, and the idle check
\* does not evict.
ReachesProjection ==
    /\ rPc = "fetched"
    /\ ~rWs.deleting /\ rWs.valid /\ rWs.finalizer /\ rWs.phase # WorkspacePhaseStopped
    /\ pvc \in {"Pending", "Bound"}
    /\ pod.exists /\ (pod.image = image \/ pod.terminating)
    /\ ~(/\ idleTimeout > 0 /\ pod.phase = "Running" /\ pod.ready
         /\ rWs.lastAccessed # 0 /\ now - rWs.lastAccessed > idleTimeout)

\* C14: a pass that reaches the status projection and whose status write is
\* accepted writes Running exactly when the pod is running and ready; otherwise
\* Failed when the pod's phase is Failed or a container waits with reason
\* CrashLoopBackOff, ImagePullBackOff, ErrImagePull or InvalidImageName;
\* otherwise Creating, with a re-queue after 5 s.
C14_StatusProjection ==
    [][ (ReachesProjection /\ PassReturns /\ rResult' # "error") =>
          LET running == pod.phase = "Running" /\ pod.ready
              failed  == \/ pod.phase = "Failed"
                         \/ pod.waiting \in {"CrashLoopBackOff", "ImagePullBackOff",
                                              "ErrImagePull", "InvalidImageName"}
          IN  /\ StatusOp \in rOps'
              /\ ws'.phase = IF running THEN WorkspacePhaseRunning
                             ELSE IF failed THEN WorkspacePhaseFailed
                             ELSE WorkspacePhaseCreating
              /\ ws'.phase = WorkspacePhaseCreating <=> rResult' = "requeueAfter5s"
              /\ pod' = pod /\ pvc' = pvc ]_vars

\* A pass has just projected Failed from a container that cannot pull its image.
C14_Witness ==
    /\ rPc = "idle" /\ StatusOp \in rOps /\ rResult = "done"
    /\ ws.phase = WorkspacePhaseFailed
    /\ pod.exists /\ pod.phase = "Pending" /\ pod.waiting = "ImagePullBackOff"

\* C15: a pass asks for the claim to be created only when the claim is
\* missing, and a pass that finds a claim, whatever it goes on to do (idle
\* eviction, image rollout, pod creation, status projection), leaves it as it
\* is and issues no request on it.
C15_ClaimCreatedOnce ==
    [][ PassReturns =>
          /\ <<"create", "PersistentVolumeClaim">> \in rOps'
                => (pvc = "none" /\ pvc' \in {"none", "Pending"})
          /\ pvc # "none" => (pvc' = pvc /\ rOps' \cap ClaimOps = {})
          /\ \A op \in rOps' :
                op[2] = "PersistentVolumeClaim" => op[1] = "create" ]_vars

\* A pass has just deleted the pod of a Workspace whose claim is bound.
C15_Witness ==
    /\ rPc = "idle" /\ DeletePodOp \in rOps /\ rOps \cap ClaimOps = {}
    /\ pod.exists /\ pod.terminating
    /\ pvc = "Bound"

\* Positions of an EnsureWorkspace call in progress.
EnsureWorkspacePcs == {"create", "poll", "clear", "sleep", "stamp"}

\* C16: EnsureWorkspace gets to its stamp only from a poll whose fresh read
\* found phase Running; it returns a Workspace only from there; a call that
\* ends otherwise (Failed, deadline, cancellation, a failed request) returns no
\* Workspace and leaves the stored Workspace, lastAccessed included, as it is.
C16_StampAfterRunning ==
    [][ \A c \in Callers :
          /\ (gPc'[c] = "stamp" /\ gPc[c] # "stamp")
                => (gPc[c] = "poll" /\ ws.exists /\ ws.phase = WorkspacePhaseRunning)
          /\ (gPc[c] \in EnsureWorkspacePcs /\ gPc'[c] = "done")
                => IF gPc[c] = "stamp"
                   THEN gResult'[c] = "ok" /\ gWs'[c].exists /\ gWs'[c].lastAccessed = now
                   ELSE gResult'[c] # "ok" /\ ~gWs'[c].exists /\ ws' = ws
          /\ (gPc[c] \in EnsureWorkspacePcs /\ ws.exists /\ ws'.exists
                  /\ ws'.lastAccessed # ws.lastAccessed)
                => gPc[c] = "stamp" ]_vars

\* EnsureWorkspace has just returned a Workspace it saw Running and stamped.
C16_Witness ==
    /\ gPc["a"] = "done" /\ gResult["a"] = "ok"
    /\ gWs["a"].exists /\ gWs["a"].phase = WorkspacePhaseRunning
    /\ ws.exists /\ ws.lastAccessed = now /\ gWs["a"].lastAccessed = now

\* C17: the blocking wait terminates.  Every call in progress returns; it
\* never waits beyond the 60 s deadline and returns NotReady only from the
\* select once the deadline has passed; once its context is cancelled it does
\* not sleep again, and from the select it returns the cancellation error.
C17_WaitTerminates ==
    /\ [](\A c \in Callers : gElapsed[c] <= workspaceReadyTimeout)
    /\ [][ \A c \in Callers :
            /\ (gResult'[c] = "NotReady" /\ gPc[c] # "done")
                  => (gPc[c] = "sleep" /\ gElapsed'[c] >= workspaceReadyTimeout)
            /\ (gPc[c] = "sleep" /\ gPc'[c] = "poll")
                  => (~gCancelled[c] /\ gElapsed'[c] = gElapsed[c] + workspaceReadyPoll
                      /\ gElapsed'[c] < workspaceReadyTimeout)
            /\ (gCancelled[c] /\ gPc[c] = "sleep" /\ gPc'[c] # "sleep")
                  => (gPc'[c] = "done" /\ gResult'[c] = "cancelled") ]_vars
    /\ (gPc["a"] \in EnsureWorkspacePcs) ~> (gPc["a"] = "done")
    /\ (gCancelled["a"] /\ gPc["a"] = "clear") ~> (gPc["a"] = "done")

\* A call has just returned NotReady at the deadline.
C17_Witness ==
    /\ gPc["a"] = "done" /\ gResult["a"] = "NotReady"
    /\ gElapsed["a"] = workspaceReadyTimeout

\* C18: a poll that reads phase Failed returns, in that step, the error that
\* carries the Workspace's status message: no further wait, no Workspace
\* returned, nothing written.
C18_FailedReturnsAtOnce ==
    [][ \A c \in Callers :
          (gPc[c] = "poll" /\ gPc'[c] # "poll"
              /\ ws.exists /\ ws.phase = WorkspacePhaseFailed /\ gResult'[c] # "cancelled")
          => /\ gPc'[c] = "done"
             /\ gResult'[c] = "workspace failed: " \o ws.message
             /\ ~gWs'[c].exists
             /\ gElapsed'[c] = gElapsed[c]
             /\ ws' = ws ]_vars

\* A call has just returned the failure of a Workspace whose pod failed, before
\* its deadline.
C18_Witness ==
    /\ gPc["a"] = "done"
    /\ ws.exists /\ ws.phase = WorkspacePhaseFailed /\ ws.message # ""
    /\ gResult["a"] = "workspace failed: " \o ws.message
    /\ gElapsed["a"] < workspaceReadyTimeout

\* Positions at which a call is about to issue its Create.
CreatePcs == {"create", "ee_create"}

C20_EnsureExistsNeverWaits ==
    [][ \A c \in Callers :
          EnsureExists(c) =>
            /\ gPc'[c] \in {"ee_create", "ee_clear", "done"}
            /\ gElapsed' = gElapsed
            /\ gPc[c] \in {"idle", "done"} =>
                  /\ ws' = ws
                  /\ gPc'[c] = IF ~ws.exists THEN "ee_create"
                               ELSE IF ws.phase = WorkspacePhaseStopped THEN "ee_clear"
                               ELSE "done"
                  /\ gPc'[c] = "done" => (gResult'[c] = "ok" /\ gWs'[c] = ws)
            /\ gPc[c] \in {"ee_create", "ee_clear"} => gPc'[c] = "done"
            /\ (gPc[c] = "ee_create" /\ ~ws.exists) =>
                  /\ ws' = NewWorkspace(TRUE)
                  /\ gResult'[c] = "ok" /\ gWs'[c] = ws'
            /\ (gPc[c] = "ee_clear" /\ ws.exists) =>
                  /\ ws'.phase = "" /\ ws'.message = ""
                  /\ ws.phase = WorkspacePhaseStopped => ws'.podName = ""
                  /\ [ws' EXCEPT !.phase = "", !.podName = "", !.message = ""]
                       = [ws EXCEPT !.phase = "", !.podName = "", !.message = ""]
                  /\ gResult'[c] = "ok" /\ gWs'[c] = ws' ]_vars

\* EnsureExists has just cleared a Stopped Workspace and returned it.
C20_Witness ==
    /\ gPc["a"] = "done" /\ gResult["a"] = "ok"
    /\ gWs["a"].exists /\ gWs["a"] = ws
    /\ ws.phase = "" /\ ws.podName = "" /\ ws.message = ""
    /\ ws.lastAccessed # 0 /\ pod.exists /\ pod.terminating

\* Provider round trips made so far.
Trips == Cardinality({i \in 1..Len(vLog) : vLog[i].trip})

\* Keys that have an index entry.
Indexed == {k \in Keys : index[k] # 0}

\* C21: the token cache never holds more than tokenCacheMax entries, in its
\* list and in its index, whatever Validate calls (of equal or distinct
\* tokens) and sweeper runs interleave.
C21_CacheBounded ==
    /\ Len(lru) <= tokenCacheMax
    /\ Cardinality(Indexed) <= Len(lru)

\* More tokens than the cache holds have been verified and inserted, with no
\* entry expired: the cache is full, and an insertion has evicted.
C21_Witness ==
    /\ Len(lru) = tokenCacheMax
    /\ Trips > tokenCacheMax
    /\ vNow = 0 /\ InProgress = {}

\* The log entry is a use of its token: a hit, or a round trip that verified it.
Used(entry) == Verify(entry.token, vNow).err = ""

\* The tokens used in a log, the most recently used first.
RECURSIVE RecentFirst(_)
RecentFirst(log) ==
    IF log = <<>> THEN <<>>
    ELSE LET last == log[Len(log)]
             rest == RecentFirst(SubSeq(log, 1, Len(log) - 1))
         IN  IF Used(last)
             THEN <<last.token>> \o SelectSeq(rest, LAMBDA x : x # last.token)
             ELSE rest

\* The tokens a cache of tokenCacheMax entries holds after a log, under LRU.
LruAfter(log) ==
    LET r == RecentFirst(log)
    IN  SubSeq(r, 1, IF Len(r) < tokenCacheMax THEN Len(r) ELSE tokenCacheMax)

SeqToSet(s) == {s[i] : i \in 1..Len(s)}

\* C22: eviction is least-recently-used, an insertion and a hit both counting
\* as a use.  After any sequence of calls made one after the other and within
\* the life of the entries, the list holds, front to back, the tokenCacheMax
\* most recently used tokens, the index holds the same tokens, and a call went
\* to the provider exactly if its token was not among those held before it.
\* With capacity 3, the calls A, B, C, A, D make four round trips and leave
\* A, C and D cached.
C22_LruEviction ==
    InProgress = {} =>
        /\ [i \in 1..Len(lru) |-> lru[i].key]
             = [i \in 1..Len(LruAfter(vLog)) |-> hashToken(LruAfter(vLog)[i])]
        /\ Indexed = {hashToken(x) : x \in SeqToSet(LruAfter(vLog))}
        /\ \A i \in 1..Len(vLog) :
              vLog[i].trip <=> vLog[i].token \notin SeqToSet(LruAfter(SubSeq(vLog, 1, i - 1)))
        /\ (tokenCacheMax = 3
              /\ [i \in 1..Len(vLog) |-> vLog[i].token] = <<"A", "B", "C", "A", "D">>)
             => (Trips = 4 /\ Indexed = {hashToken("A"), hashToken("C"), hashToken("D")})

\* A, B, C, A, D have been validated in this order: D's insertion found the
\* cache full and B was evicted.
C22_Witness ==
    /\ InProgress = {}
    /\ [i \in 1..Len(vLog) |-> vLog[i].token] = <<"A", "B", "C", "A", "D">>
    /\ Trips = 4
    /\ Len(lru) = tokenCacheMax /\ index[hashToken("B")] = 0

\* Call c answers token t from the cache in this step.
HitStep(c, t) ==
    /\ vCall[c].pc = "idle" /\ vCall'[c].pc = "idle" /\ vCall'[c].token = t
    /\ vCall'[c].err = ""
    /\ vLog' = Append(vLog, [token |-> t, trip |-> FALSE])
    /\ \A d \in Callers \ {c} : vCall'[d] = vCall[d]

\* C23: what Validate answers is a function of the token and the clock: a
\* call answered from the cache returns what the provider round trip returns
\* for the same token at the same clock value, the same claims or the same
\* error.
C23_ValidateDeterministic ==
    [][ \A c \in Callers, t \in Tokens :
          HitStep(c, t) => /\ Verify(t, vNow).err = ""
                           /\ vCall'[c].ret = Verify(t, vNow).claims ]_vars

\* For a token that has not expired, a hit returns the claims of a miss.
HitEqualsMissWhileUnexpired ==
    [][ \A c \in Callers, t \in Tokens :
          (HitStep(c, t) /\ vNow <= TokenBody(t).exp)
             => (Verify(t, vNow).err = "" /\ vCall'[c].ret = Verify(t, vNow).claims) ]_vars

\* Call c looks token t up in this step and goes on to the provider.
MissStep(c, t) ==
    /\ vCall[c].pc = "idle" /\ vCall'[c].pc = "verify" /\ vCall'[c].token = t

\* The element the index holds for token t.
EntryOf(t) == lru[PosOf(lru, hashToken(t), index[hashToken(t)])]

\* C24: a call is answered from the cache only by an entry whose expiry lies
\* ahead; a lookup that finds an entry whose expiry has passed removes it
\* from the index and from the list in the same critical section, before the
\* call goes to the provider.
C24_ExpiredNeverServed ==
    [][ \A c \in Callers, t \in Tokens :
          /\ HitStep(c, t) =>
                /\ index[hashToken(t)] # 0 /\ vNow < EntryOf(t).expiry
                /\ vCall'[c].ret = EntryOf(t).claims
          /\ (MissStep(c, t) /\ index[hashToken(t)] # 0) =>
                /\ vNow >= EntryOf(t).expiry
                /\ index'[hashToken(t)] = 0
                /\ PosOf(lru', hashToken(t), index[hashToken(t)]) = 0
                /\ Len(lru') = Len(lru) - 1
                /\ vLog' = vLog ]_vars

\* B was cached and is looked up at the instant its entry expires, before any
\* sweep could have taken it: the entry is gone and the call is on its way to
\* the provider.
C24_Witness ==
    /\ vNow = tokenCacheTTL
    /\ vLog = <<[token |-> "B", trip |-> TRUE]>>
    /\ vCall["a"].pc = "verify" /\ vCall["a"].token = "B" /\ vCall["b"].pc = "idle"
    /\ lru = <<>> /\ Indexed = {}

\* C25: ServeWS returns once a copyFrames task has reported an error, and only
\* then; a task that has an error to report never finds the channel full; and
\* once ServeWS has returned both tasks return, whichever failed first and also
\* when both fail.
C25_RelayTerminates ==
    /\ [](\A r \in Relays : copy[r].pc = "send" => Len(errc) < errcCap)
    /\ [][(serve = "wait" /\ serve' # "wait") => (errc # <<>> /\ serve' = "returned")]_vars
    /\ (serve = "wait" /\ errc # <<>>) ~> (serve = "returned")
    /\ (serve = "returned") ~> (\A r \in Relays : copy[r].pc = "done")

\* ServeWS has returned on the first error and both tasks have returned; the
\* error of the second is left in the channel.
C25_Witness ==
    /\ serve = "returned"
    /\ \A r \in Relays : copy[r].pc = "done"
    /\ Len(errc) = 1

\* C26: a task that has read a normal close frame and has yet to write the
\* close message to the other side never finds that ServeWS has returned and
\* closed the connections.
C26_ClosePropagatedBeforeReturn ==
    \A r \in Relays :
        (copy[r].pc = "close" /\ copy[r].err = CloseError(CloseNormalClosure)) => ~ConnsClosed

\* The data frames task r has written to its destination.
Forwarded(r) == SelectSeq(written[r], LAMBDA f : f.type # "close")

\* C27: in each direction, what has been written to the peer is what has been
\* read from the endpoint, frame by frame in the same order with type and
\* payload, each once: all of it while the task is between frames, all but
\* the frame in hand while it writes, and at most that one frame short after
\* a write failed.  A close message comes last.
C27_FramesInOrder ==
    \A r \in Relays :
        /\ nread[r] <= Len(stream[r].frames)
        /\ Len(Forwarded(r)) <= nread[r]
        /\ Forwarded(r) = SubSeq(stream[r].frames, 1, Len(Forwarded(r)))
        /\ copy[r].pc \in {"read", "activity", "close"} => Len(Forwarded(r)) = nread[r]
        /\ copy[r].pc = "write" => /\ Len(Forwarded(r)) = nread[r] - 1
                                   /\ copy[r].frame = stream[r].frames[nread[r]]
        /\ copy[r].pc \in {"send", "done"} => Len(Forwarded(r)) \in {nread[r] - 1, nread[r]}
        /\ \A i \in 1..Len(written[r]) : written[r][i].type = "close" => i = Len(written[r])

\* Both directions have carried MaxFrames frames and the relay is live.
C27_Witness ==
    /\ serve = "wait"
    /\ \A r \in Relays : /\ Len(stream[r].frames) = MaxFrames
                         /\ written[r] = stream[r].frames
                         /\ copy[r].pc = "read"

\* The request carries no token, or one the provider's verifier rejects.
Unauthenticated ==
    \/ extractToken(req).err # ""
    \/ Verify(extractToken(req).token, vNow).err # ""

\* The lifecycle manager has been called for this request.
LifecycleInvoked == gPc["a"] # "idle" \/ gWs["a"] # NoWorkspace \/ gResult["a"] # "none"

\* ServeWS has been called for this request.
ProxyInvoked == serve # "start"

\* C28: on /ws the lifecycle manager is called only after Validate returned
\* without error for the request's token, and ServeWS only after EnsureWorkspace
\* returned a Workspace.  A request without a token, or with one that does not
\* verify, ends in 401 with no lifecycle call made, no Workspace stored and
\* ServeWS not called; a failed EnsureWorkspace (NotReady included) ends in 500
\* with ServeWS not called.
C28_HandleWSOrder ==
    /\ LifecycleInvoked =>
          /\ h.pc \in {"ensure", "proxy", "done"}
          /\ ~Unauthenticated
          /\ ValidateReturned /\ vCall["a"].err = ""
          /\ vCall["a"].token = extractToken(req).token
    /\ ProxyInvoked => h.pc \in {"proxy", "done"} /\ gPc["a"] = "done" /\ gResult["a"] = "ok"
    /\ (h.pc = "done" /\ Unauthenticated) =>
          resp.status = 401 /\ ~LifecycleInvoked /\ ~ws.exists /\ ~ProxyInvoked
    /\ resp.status = 401 => Unauthenticated
    /\ (h.pc = "done" /\ gPc["a"] = "done" /\ gResult["a"] # "ok") =>
          resp.status = 500 /\ ~ProxyInvoked
    /\ resp.status = 500 => gPc["a"] = "done" /\ gResult["a"] # "ok"

\* The wait for the Workspace ran out, and the request was answered 500.
C28_Witness ==
    /\ h.pc = "done" /\ resp.status = 500
    /\ gResult["a"] = "NotReady"
    /\ serve = "start"

\* A request with a token that does not verify was answered 401.
C28_WitnessRejected ==
    /\ h.pc = "done" /\ resp.status = 401
    /\ extractToken(req).err = ""

\* The request's devplane_state cookie is there and equals its state parameter.
StateMatches == req.stateCookie.present /\ req.stateCookie.value = req.state

\* The response sets the session cookie.
SessionCookies == {c \in resp.cookies : c.name = "devplane_token" /\ ~c.cleared}

\* C29: on /callback a code is handed to the token endpoint only for a request
\* whose devplane_state cookie is there and equals its state parameter; any
\* other request ends in 400 with nothing exchanged.  The session cookie is
\* set only once the exchange of the request's code succeeded, its token set
\* had a non-empty id_token, and Validate returned without error for that
\* id_token, which is the cookie's value.
C29_CallbackOrder ==
    /\ exch # {} => StateMatches /\ exch = {req.code}
    /\ (h.pc = "done" /\ ~StateMatches) => resp.status = 400 /\ exch = {}
    /\ resp.status = 400 => ~StateMatches /\ resp.cookies = {}
    /\ SessionCookies # {} =>
          /\ exch = {req.code}
          /\ ExchangeOf(req.code).err = ""
          /\ ExchangeOf(req.code).idToken.present
          /\ ExchangeOf(req.code).idToken.value # ""
          /\ ValidateReturned /\ vCall["a"].err = ""
          /\ vCall["a"].token = ExchangeOf(req.code).idToken.value
          /\ Verify(vCall["a"].token, vNow).err = ""
          /\ SessionCookies = {SetCookie("devplane_token", vCall["a"].token)}
          /\ resp.status = 302

\* A login went through: state matched, the code was exchanged, the id_token
\* validated, the session cookie is set.
C29_Witness ==
    /\ h.pc = "done" /\ resp.status = 302
    /\ SessionCookies # {}
    /\ req.state = "s1"

\* A request whose state parameter differs from the cookie was answered 400.
C29_WitnessMismatch ==
    /\ h.pc = "done" /\ resp.status = 400
    /\ req.stateCookie = Carried("s1") /\ req.state = "s2" /\ req.code = "good"

\* The entries of a list.
Range(l) == {l[i] : i \in 1..Len(l)}
InRange(p) == 1 <= p /\ p <= 65535

\* The list the stored policy was built from, once the policy is up to date.
Resolved == ResolvedEgressPorts(specEgressPorts, rEgressPorts)
PolicyCurrent ==
    /\ egressPolicy.exists
    /\ egressPolicy.ports = InternetPorts(Resolved)

\* The part of C30 that holds: the rule's entries are TCP, in 1..65535, and are
\* the in-range entries of the resolved list, in its order; with the list
\* 0, 443, -1, 65536, 22 they are 443 and 22.
EgressInRangeOfResolved ==
    egressPolicy.exists =>
        /\ \A e \in Range(egressPolicy.ports) : e.protocol = "TCP" /\ InRange(e.port)
        /\ PolicyCurrent =>
              /\ {e.port : e \in Range(egressPolicy.ports)} = {p \in Range(Resolved) : InRange(p)}
              /\ specEgressPorts = <<0, 443, -1, 65536, 22>> =>
                    egressPolicy.ports = <<TCPPort(443), TCPPort(22)>>

\* C30: the rule for 0.0.0.0/0 holds only TCP ports in 1..65535, they are the
\* in-range ports of the resolved list, and no port is there twice.
C30_EgressPortsExact ==
    /\ EgressInRangeOfResolved
    /\ egressPolicy.exists =>
          Cardinality(Range(egressPolicy.ports)) = Len(egressPolicy.ports)

\* The Workspace has passed the reconciler's validation.
Accepted == idPhase = WorkspacePhasePending

\* The length of every name derived from the applied user ID that has to be a
\* DNS label.
LabelLengths == {Len(appliedID) + Len(sfx) : sfx \in LabelSuffixes}

\* The part of C31 that holds: a Workspace that passes has a user ID that is a
\* DNS label (of at most 63 characters), and one of 49 characters passes.
AcceptedIsLabel ==
    /\ Accepted => dnsLabelRegex(appliedID) /\ Len(appliedID) <= LabelMax
    /\ (idPhase # "" /\ appliedID = Rep("a", 49)) => Accepted

\* C31: a Workspace that passes the reconciler's validation has a user ID that
\* is a DNS label of at most 49 characters, so that its derived label names
\* have at most 63; one of 50 characters ends Failed, one of 49 passes.
C31_UserIDFitsNames ==
    /\ AcceptedIsLabel
    /\ Accepted => Len(appliedID) <= 49 /\ \A n \in LabelLengths : n <= LabelMax
    /\ (idPhase # "" /\ Len(appliedID) = 50) => idPhase = WorkspacePhaseFailed

\* The part of C39 that holds: a subject that is a DNS label of at most 63
\* characters with a letter first is its own user ID, so two such subjects
\* never share one.
LabelsKeepTheirID ==
    \A c \in Callers :
        (dnsLabelRegex(subjects[c]) /\ Len(subjects[c]) <= LabelMax
            /\ subjects[c][1] \notin Digits) => userIDs[c] = subjects[c]

\* C39: two tokens whose raw subjects differ never get the same user ID, and
\* so never the same Workspace.
C39_DistinctSubjectsDistinctIDs ==
    \A c, d \in Callers :
        (subjects[c] # <<>> /\ subjects[d] # <<>> /\ subjects[c] # subjects[d])
            => userIDs[c] # userIDs[d]

\* C32: every object the reconciler has created or updated for the Workspace
\* has the Workspace as its controller, and once the Workspace is deleted and
\* the cascade deletion has run none of them is left.
C32_OwnedAndCollected ==
    /\ \A k \in touched : objects[k].exists => objects[k].controller = "this"
    /\ oWs = "collected" => \A k \in touched : ~objects[k].exists

\* All nine kinds were created or updated, and the cascade deletion has run.
C32_Witness ==
    /\ oWs = "collected"
    /\ touched = ObjectKinds

\* The part of C33 that holds: the pass evicts only if the lastAccessed it
\* fetched is older than the idle timeout.
EvictionSeesFetchedStamp ==
    [][ReconcileIdle => (rWs.lastAccessed # 0 /\ now - rWs.lastAccessed > idleTimeout)]_vars

\* C33: whenever the reconciler deletes the pod for idleness, the lastAccessed
\* stored on the platform at that moment is older than the idle timeout: a
\* stamp written between the pass's fetch and its deletion keeps the pod.
C33_EvictionSeesStoredStamp == [][ReconcileIdle => StoredIdle]_vars

\* The part of C34 that holds: every index value is an element of the list,
\* under its own key.
IndexedAreListed ==
    \A k \in Indexed : PosOf(lru, k, index[k]) # 0

\* C34: between critical sections the index and the list correspond one to
\* one: every element of the list is the index value of its own key, and
\* every index value is an element of the list.
C34_IndexMatchesList ==
    /\ IndexedAreListed
    /\ \A i \in 1..Len(lru) : index[lru[i].key] = lru[i].id
    /\ Cardinality(Indexed) = Len(lru)

\* The token's own expiry has passed.
TokenExpired(t) == TokenBody(t).exp < vNow

\* The part of C35 that holds: the provider round trip lets no expired token
\* through.
RoundTripChecksExpiry ==
    [][ \A c \in Callers :
          (vCall[c].pc = "verify" /\ vCall'[c].pc = "insert")
             => ~TokenExpired(vCall[c].token) ]_vars

\* C35: no call is answered from the cache with claims for a token whose own
\* expiry has passed, whatever is left of the entry's time to live.
C35_NoVerdictBeyondTokenExpiry ==
    [][ \A c \in Callers, t \in Tokens : HitStep(c, t) => ~TokenExpired(t) ]_vars


\* C36: a clear of the Stopped phase by a gateway call leaves the stored phase
\* alone when that phase is no longer Stopped as the patch is applied: a phase
\* the reconciler wrote after an earlier clear is never overwritten.
C36_ClearOnlyWhileStopped ==
    [][ \A c \in Callers :
          (GwClear(c) \/ EeClear(c)) /\ ws.exists /\ ws.phase # WorkspacePhaseStopped
             => ws'.phase = ws.phase ]_vars

\* Validate calls that are in their round trip to the identity provider.
InRoundTrip == {c \in Callers : vCall[c].pc = "verify"}

\* C37: while a Validate call is in its round trip to the identity provider the
\* mutex of the token cache is free, so neither another Validate call nor the
\* sweeper waits for it.
C37_NoLockAcrossRoundTrip == InRoundTrip # {} => mu = ""

\* Two round trips in progress at once, next to a cache that holds an entry.
C37_Witness == InRoundTrip = Callers /\ lru # <<>> /\ mu = ""


\* The calls whose Create was refused because the Workspace was there by then.
CreateRefused == {c \in Callers : gResult[c] = "createFailed"}

\* What a Create of the gateway stores is the Workspace of the user, whoever
\* stores it.
CreateStoresTheWorkspace ==
    [][ \A c \in Callers : GwCreate(c) /\ ~ws.exists => ws' = NewWorkspace(TRUE) ]_vars

\* C38: of two EnsureWorkspace calls that run at once for a user without a
\* Workspace, neither fails because the other created the Workspace first.
C38_NoCallFailsOnTheOthersCreate == CreateRefused = {}


\* A Running Workspace with a ready pod that will get no stamp any more: no
\* call is on its way to one, and the clock can still pass the timeout.
LeftAlone ==
    /\ ws.exists /\ ws.phase = WorkspacePhaseRunning /\ PodRunningAndReady(pod)
    /\ gPc["a"] \in {"idle", "done"}
    /\ ws.lastAccessed + idleTimeout < MaxTime

\* A Workspace that was stamped once and is left alone is stopped.
StampedIsEvicted ==
    (LeftAlone /\ ws.lastAccessed # 0) ~> (ws.phase = WorkspacePhaseStopped)

\* C40: with idle eviction on, a Running Workspace with a ready pod that gets
\* no further stamp is stopped in the end by the periodic passes alone,
\* whatever its lastAccessed, the zero value of a Workspace never stamped
\* included.
C40_IdleWorkspaceIsStopped == LeftAlone ~> (ws.phase = WorkspacePhaseStopped)


====
